---- MODULE Spec2Model ----
(***************************************************************************)
(* Model of the cache-or-fetch layer of gmaxfeed                           *)
(* (src/gmaxfeed/feeds/postrace_feeds.py, src/gmaxfeed/feeds/utils.py).    *)
(*                                                                         *)
(* Texts (response bodies, file contents) and Python values share one      *)
(* record shape [kind, tag, rows]:                                         *)
(*   kind "None" / "False" / "True"  the Python constants                  *)
(*   kind "list" / "dict"            a list of rows / a dict keyed by the  *)
(*                                   rows' own "I" field                   *)
(*   kind "row"                      one record (a dict of fields)         *)
(*   kind "str"                      a text; tag "json:list" / "json:dict" *)
(*                                   is the JSON serialisation of rows,    *)
(*                                   tag "lines" is one JSON record per    *)
(*                                   line, any other tag is that literal   *)
(* Time is in seconds; the process time zone is taken to be UTC; day 0 is  *)
(* the calendar date of the sharecodes of the model.                       *)
(***************************************************************************)
EXTENDS Integers, Sequences, FiniteSets, TLC

VARIABLES store, now, altlicence, calls, last,
          environ, dirs, gmax_feed,
          _data, _list, _filter, meta_op,
          pool, url, updater, rec, util

vars == <<store, now, altlicence, calls, last, environ, dirs, gmax_feed, _data, _list, _filter, meta_op,
          pool, url, updater, rec, util>>

\* the variables of the cache layer, of the construction of the feed object,
\* of a RaceMetadata object, of a running apply_thread_pool call, of a
\* running read_url call and of the background updater
feedvars == <<store, now, altlicence, calls, last>>
ctorvars == <<environ, dirs, gmax_feed>>
metavars == <<_data, _list, _filter, meta_op>>
poolvars == <<pool>>
urlvars == <<url>>
updatervars == <<updater>>
recvars == <<rec>>
utilvars == <<util>>

\* ---------------------------------------------------------------- bounds
MaxCalls == 2
MaxBulk == 1
MaxAhead == 2
MaxBuilt == 2

\* ------------------------------------------------------ program constants
TryLimit == 3
SizeLimit == 2
DaySecs == 86400
StaleDays == 6

\* ------------------------------------------------------------------ keys
Sharecodes == {"01_D0_a", "65_D0_b"}
CourseCodes == {"1", "65"}
Days == {0, 1}

\* sharecode[:2]
ScCourse(sc) == IF sc \in {"01_D0_a", "01_D0_c"} THEN "01" ELSE "65"

\* datetime.strptime(sharecode[2:10], '%Y%m%d'), as seconds
ScDate(sc) == 0

\* date.strftime('%Y-%m-%d')
DateStr(d) == IF d \div DaySecs = 0 THEN "D0" ELSE "D1"

\* datetime.strptime(date, '%Y-%m-%d'), as seconds
StrDate(s) == IF s = "D0" THEN 0 ELSE DaySecs

\* str(course_code).zfill(2) and 'Racecourse-{0}.kml'.format(...)
RouteFname(cc) == IF cc \in {"1", "01"} THEN "Racecourse-01.kml" ELSE "Racecourse-65.kml"

METRIC_GATES == {"65", "66", "67", "68", "31"}

Types == {"racelist", "fixtures", "sectionals", "sectionals-raw", "sectionals-history",
          "points", "obstacles", "performance", "route"}

KeysOf(t) == IF t = "racelist" THEN {DateStr(d * DaySecs) : d \in Days}
             ELSE IF t = "fixtures" THEN {DateStr(0)}
             ELSE IF t = "route" THEN {RouteFname(cc) : cc \in CourseCodes}
             ELSE Sharecodes

\* ---------------------------------------------------------------- values
None_ == [kind |-> "None", tag |-> "", rows |-> <<>>]
False_ == [kind |-> "False", tag |-> "", rows |-> <<>>]
True_ == [kind |-> "True", tag |-> "", rows |-> <<>>]
List(rows) == [kind |-> "list", tag |-> "", rows |-> rows]
Dict(rows) == [kind |-> "dict", tag |-> "", rows |-> rows]
RowVal(row) == [kind |-> "row", tag |-> "", rows |-> <<row>>]
Str(tag) == [kind |-> "str", tag |-> tag, rows |-> <<>>]
LinesText(rows) == [kind |-> "str", tag |-> "lines", rows |-> rows]

\* Python truthiness
Truthy(v) ==
    CASE v.kind \in {"None", "False"} -> FALSE
      [] v.kind = "True" -> TRUE
      [] v.kind \in {"list", "dict", "row"} -> v.rows # <<>>
      [] OTHER -> v # Str("")

\* a or b
Or(a, b) == IF Truthy(a) THEN a ELSE b

\* characters of the RaceType strings of the model
Flat == <<"F", "l", "a", "t">>
Chase == <<"C", "h", "a", "s", "e">>
NHFlat == <<"N", "H", " ", "F", "l", "a", "t">>

MkRow(i, g, rt, pub, rx) == [I |-> i, G |-> g, RaceType |-> rt, Published |-> pub, RX |-> rx]

\* str.lower() on the characters that occur in the model
LowerChar(c) ==
    CASE c = "F" -> "f" [] c = "C" -> "c" [] c = "N" -> "n" [] c = "H" -> "h"
      [] OTHER -> c

Lower(s) == [i \in 1..Len(s) |-> LowerChar(s[i])]

\* sub in s
Contains(sub, s) ==
    \E i \in 0..(Len(s) - Len(sub)) : \A j \in 1..Len(sub) : s[i + j] = sub[j]

\* faulty variant: the race type is not lowered before the comparison
IsJumpRaceType_cased(rt) ==
    \E x \in {<<"h", "u", "r", "d", "l", "e">>, <<"c", "h", "a", "s", "e">>,
              <<"n", "h", " ", "f", "l", "a", "t">>} : Contains(x, rt)

\* any([x in racetype.lower() for x in ["hurdle", "chase", "nh flat"]])
IsJumpRaceType(rt) ==
    \E x \in {<<"h", "u", "r", "d", "l", "e">>, <<"c", "h", "a", "s", "e">>,
              <<"n", "h", " ", "f", "l", "a", "t">>} : Contains(x, Lower(rt))

\* ------------------------------------------------------------------ json
\* json.dump / json.dumps of a list or dict
JsonDumps(v) ==
    [kind |-> "str", tag |-> IF v.kind = "list" THEN "json:list" ELSE "json:dict",
     rows |-> v.rows]

\* json.loads / json.load; ok = FALSE is a JSONDecodeError
JsonLoads(txt) ==
    CASE txt.tag = "json:list" -> [ok |-> TRUE, val |-> List(txt.rows)]
      [] txt.tag = "json:dict" -> [ok |-> TRUE, val |-> Dict(txt.rows)]
      [] OTHER -> [ok |-> FALSE, val |-> None_]

\* len() of a literal text of the model
LitLen(tag) ==
    CASE tag = "" -> 0
      [] tag = "Permission Denied" -> 17
      [] tag = "File not available - please contact us." -> 39
      [] tag = "<html>" -> 6
      [] tag = "ok" -> 2
      [] OTHER -> 300

\* number of characters of a text (os.path.getsize of a file holding it)
Size(txt) ==
    IF txt.tag \in {"json:list", "json:dict", "lines"}
    THEN IF txt.rows = <<>> THEN 2 ELSE 2 + 32 * Len(txt.rows)
    ELSE LitLen(txt.tag)

\* d[row['I']] = row for a dict held as rows in insertion order
Upsert(rows, row) ==
    IF \E i \in 1..Len(rows) : rows[i].I = row.I
    THEN [i \in 1..Len(rows) |-> IF rows[i].I = row.I THEN row ELSE rows[i]]
    ELSE Append(rows, row)

RECURSIVE IndexRows(_, _)
IndexRows(acc, rows) ==
    IF rows = <<>> THEN acc ELSE IndexRows(Upsert(acc, Head(rows)), Tail(rows))

\* {row['I']: row for row in data}
IndexById(rows) == Dict(IndexRows(<<>>, rows))

\* data.get(sharecode) or False
GetOrFalse(data, sc) ==
    IF \E i \in 1..Len(data.rows) : data.rows[i].I = sc
    THEN RowVal(data.rows[CHOOSE i \in 1..Len(data.rows) : data.rows[i].I = sc])
    ELSE False_

\* ------------------------------------------------------------ file store
NoFile == [exists |-> FALSE, text |-> Str(""), mtime |-> 0]

EmptyStore == [t \in Types |-> [k \in KeysOf(t) |-> NoFile]]

\* faulty variant: no file counts as present, so a no_return call always
\* goes to the remote
check_file_exists_never(st, t, k) == None_

check_file_exists(st, t, k) ==
    IF st[t][k].exists /\ Size(st[t][k].text) > SizeLimit THEN True_ ELSE None_

\* read_file through load_file; ok = FALSE is the decode error of json.load
load_file(st, t, k, is_json) ==
    IF ~st[t][k].exists THEN [ok |-> TRUE, val |-> None_]
    ELSE IF is_json THEN JsonLoads(st[t][k].text)
    ELSE [ok |-> TRUE, val |-> st[t][k].text]

\* faulty variant: an empty payload removes the file
dump_file_dropping_empty(st, t, k, data, mtime) ==
    [st EXCEPT ![t][k] =
        IF data.kind \in {"list", "dict"} /\ data.rows = <<>>
        THEN [exists |-> FALSE, text |-> Str(""), mtime |-> 0]
        ELSE [exists |-> TRUE,
              text |-> IF data.kind \in {"list", "dict"} THEN JsonDumps(data) ELSE data,
              mtime |-> mtime]]

dump_file(st, t, k, data, mtime) ==
    [st EXCEPT ![t][k] = [exists |-> TRUE,
                          text |-> IF data.kind \in {"list", "dict"} THEN JsonDumps(data) ELSE data,
                          mtime |-> mtime]]

\* ---------------------------------------------------------------- remote
\* one read_url call meets net = [fails, body]: the first `fails` GETs raise a
\* transport error, the next one answers with `body`
RECURSIVE ReadUrlLoop(_, _, _)
ReadUrlLoop(idx, gets, net) ==
    IF idx < TryLimit
    THEN IF idx < net.fails
         THEN ReadUrlLoop(idx + 1, gets + 1, net)
         ELSE [txt |-> IF net.body = Str("Permission Denied") THEN False_ ELSE net.body,
               gets |-> gets + 1]
    ELSE [txt |-> False_, gets |-> gets]

\* faulty variant: the body is returned as received, "Permission Denied" included
read_url_unchecked(net) ==
    IF net.fails < TryLimit THEN [txt |-> net.body, gets |-> net.fails + 1]
    ELSE [txt |-> False_, gets |-> TryLimit]

\* faulty variant: a denied answer is tried again like a transport error
read_url_retrying_denied(net) ==
    IF net.body = Str("Permission Denied") /\ net.fails < TryLimit
    THEN [txt |-> False_, gets |-> TryLimit]
    ELSE ReadUrlLoop(0, 0, net)

read_url(net) == ReadUrlLoop(0, 0, net)

\* faulty variant: the empty JSON object is not among the sentinels
NotAvailable_short == {Str("File not available - please contact us."), Str("Permission Denied")}

NotAvailable == {Str("File not available - please contact us."), Str("Permission Denied"),
                 JsonDumps(Dict(<<>>))}

\* [json.loads(row) for row in txt.splitlines() if len(row) > 5]
SplitLinesLoads(txt) ==
    CASE txt.tag = "lines" -> [ok |-> TRUE, val |-> List(txt.rows)]
      [] Size(txt) <= 5 -> [ok |-> TRUE, val |-> List(<<>>)]
      [] OTHER -> [ok |-> FALSE, val |-> None_]

PUR(data, raised, gets, st, wrote) ==
    [data |-> data, raised |-> raised, gets |-> gets, store |-> st, wrote |-> wrote]

process_url_response(st, clock, net, t, k, version) ==
    LET r == read_url(net)
        txt == r.txt
        j == JsonLoads(txt)
        l == SplitLinesLoads(txt)
    IN  IF ~Truthy(txt) THEN PUR(Dict(<<>>), FALSE, r.gets, st, FALSE)
        ELSE CASE version = 1 ->
                    IF ~j.ok THEN PUR(Dict(<<>>), TRUE, r.gets, st, FALSE)
                    ELSE IF Truthy(j.val)
                         THEN PUR(j.val, FALSE, r.gets, dump_file(st, t, k, j.val, clock), TRUE)
                         ELSE PUR(j.val, FALSE, r.gets, st, FALSE)
               [] version = 2 ->
                    IF ~j.ok \/ (j.val.kind = "dict" /\ j.val.rows # <<>>)
                    THEN PUR(Dict(<<>>), TRUE, r.gets, st, FALSE)
                    ELSE PUR(IndexById(j.val.rows), FALSE, r.gets,
                             dump_file(st, t, k, IndexById(j.val.rows), clock), TRUE)
               [] version = 3 ->
                    IF ~l.ok THEN PUR(Dict(<<>>), TRUE, r.gets, st, FALSE)
                    ELSE IF Truthy(l.val)
                         THEN PUR(l.val, FALSE, r.gets, dump_file(st, t, k, l.val, clock), TRUE)
                         ELSE PUR(l.val, FALSE, r.gets, st, FALSE)
               [] OTHER ->
                    IF txt \notin NotAvailable
                    THEN PUR(txt, FALSE, r.gets, dump_file(st, t, k, txt, clock), TRUE)
                    ELSE PUR(Dict(<<>>), FALSE, r.gets, st, FALSE)

\* ------------------------------------------------------------- resolvers
\* What one call did: the value returned (ret.data; ret.key is the 'sc' or
\* 'course_code' of the returned dict), whether an exception left the call,
\* whether the value came from the cache file, the GET requests issued, the
\* store afterwards, and the files looked at (exists, getmtime, getsize, open
\* for reading) and written.  For get_obstacles, race is the race record it
\* decided on and race_gets the GET requests of its get_race lookup.
Eff(key, data, raised, served, gets, st, reads, writes) ==
    [ret |-> [key |-> key, data |-> data], raised |-> raised, served |-> served,
     gets |-> gets, store |-> st, reads |-> reads, writes |-> writes,
     race |-> None_, race_gets |-> 0]

Wrote(p, t, k) == IF p.wrote THEN {<<t, k>>} ELSE {}

\* alter_gate_label on the gate labels of the model
alter_gate_label(g) == IF g = "200m" THEN "1f" ELSE g

alter_sectionals_gate_label(data) ==
    IF Truthy(data)
    THEN [data EXCEPT !.rows = [i \in 1..Len(data.rows) |->
                                  [data.rows[i] EXCEPT !.G = alter_gate_label(data.rows[i].G)]]]
    ELSE data

get_fixtures(st, clock, date, kw, net) ==
    LET date_str == DateStr(date)
        c == <<"fixtures", date_str>>
        f == st["fixtures"][date_str]
        limit_date == date + StaleDays * DaySecs
        inner == f.exists /\ ~kw.new /\ ((~kw.new /\ f.mtime > limit_date) \/ kw.offline)
        ld == load_file(st, "fixtures", date_str, TRUE)
        cached == IF kw.no_return THEN check_file_exists(st, "fixtures", date_str) ELSE ld.val
        p == process_url_response(st, clock, net, "fixtures", date_str, 1)
        data0 == IF inner THEN cached ELSE List(<<>>)
    IN  IF inner /\ ~kw.no_return /\ ~ld.ok
        THEN Eff("", None_, TRUE, FALSE, 0, st, {c}, {})
        ELSE IF inner /\ cached # None_
        THEN Eff("", cached, FALSE, TRUE, 0, st, {c}, {})
        ELSE IF ~kw.offline
        THEN Eff("", IF kw.no_return THEN None_ ELSE Or(p.data, False_), p.raised, FALSE,
                 p.gets, p.store, {c}, Wrote(p, "fixtures", date_str))
        ELSE Eff("", IF kw.no_return THEN None_ ELSE data0, FALSE, FALSE, 0, st, {c}, {})

\* date = NoDate stands for date = None
NoDate == 0 - 1

\* faulty variant: the record fetched is cached as the racelist of its date
get_race_caching(st, clock, sharecode, date0, kw, net) ==
    LET date_str == DateStr(IF date0 = NoDate THEN ScDate(sharecode) ELSE date0)
        p == process_url_response(st, clock, net, "racelist", date_str, 2)
    IN  Eff("", IF p.raised THEN None_ ELSE p.data, p.raised, FALSE, p.gets, p.store,
            {<<"racelist", date_str>>}, Wrote(p, "racelist", date_str))

get_race(st, clock, sharecode, date0, kw, net) ==
    LET date == IF date0 = NoDate THEN ScDate(sharecode) ELSE date0
        date_str == DateStr(date)
        c == <<"racelist", date_str>>
        f == st["racelist"][date_str]
        limit_date == date + StaleDays * DaySecs
        inner == f.exists /\ ~kw.new /\ ((~kw.new /\ f.mtime > limit_date) \/ kw.offline)
        ld == load_file(st, "racelist", date_str, TRUE)
        r == read_url(net)
        j == JsonLoads(r.txt)
    IN  IF inner /\ ~ld.ok
        THEN Eff("", None_, TRUE, FALSE, 0, st, {c}, {})
        ELSE IF inner /\ ld.val # None_
        THEN Eff("", GetOrFalse(ld.val, sharecode), FALSE, TRUE, 0, st, {c}, {})
        ELSE IF ~kw.offline
        THEN IF Truthy(r.txt)
             THEN IF ~j.ok \/ (j.val.kind = "dict" /\ j.val.rows # <<>>)
                  THEN Eff("", None_, TRUE, FALSE, r.gets, st, {c}, {})
                  ELSE Eff("", GetOrFalse(IndexById(j.val.rows), sharecode), FALSE, FALSE,
                           r.gets, st, {c}, {})
             ELSE Eff("", False_, FALSE, FALSE, r.gets, st, {c}, {})
        ELSE Eff("", False_, FALSE, FALSE, 0, st, {c}, {})

\* faulty variant: a file written exactly at the limit is trusted
get_racelist_inclusive(st, clock, date0, sharecode, kw, net) ==
    LET date == DateStr(IF sharecode # "" THEN ScDate(sharecode) ELSE date0)
        c == <<"racelist", date>>
        f == st["racelist"][date]
        limit_date == StrDate(date) + StaleDays * DaySecs
        inner == f.exists /\ ((~kw.new /\ f.mtime >= limit_date) \/ kw.offline)
        ld == load_file(st, "racelist", date, TRUE)
        p == process_url_response(st, clock, net, "racelist", date, 2)
        Pick(data) == IF sharecode # "" THEN GetOrFalse(data, sharecode) ELSE data
    IN  IF inner /\ ~ld.ok
        THEN Eff("", None_, TRUE, FALSE, 0, st, {c}, {})
        ELSE IF inner /\ ld.val # None_
        THEN Eff("", Pick(ld.val), FALSE, TRUE, 0, st, {c}, {})
        ELSE IF ~kw.offline
        THEN Eff("", IF p.raised THEN None_ ELSE Pick(p.data), p.raised, FALSE, p.gets, p.store,
                 {c}, Wrote(p, "racelist", date))
        ELSE Eff("", Pick(Dict(<<>>)), FALSE, FALSE, 0, st, {c}, {})

\* sharecode = "" stands for sharecode = None
get_racelist(st, clock, date0, sharecode, kw, net) ==
    LET date == DateStr(IF sharecode # "" THEN ScDate(sharecode) ELSE date0)
        c == <<"racelist", date>>
        f == st["racelist"][date]
        limit_date == StrDate(date) + StaleDays * DaySecs
        inner == f.exists /\ ((~kw.new /\ f.mtime > limit_date) \/ kw.offline)
        ld == load_file(st, "racelist", date, TRUE)
        p == process_url_response(st, clock, net, "racelist", date, 2)
        Pick(data) == IF sharecode # "" THEN GetOrFalse(data, sharecode) ELSE data
    IN  IF inner /\ ~ld.ok
        THEN Eff("", None_, TRUE, FALSE, 0, st, {c}, {})
        ELSE IF inner /\ ld.val # None_
        THEN Eff("", Pick(ld.val), FALSE, TRUE, 0, st, {c}, {})
        ELSE IF ~kw.offline
        THEN Eff("", IF p.raised THEN None_ ELSE Pick(p.data), p.raised, FALSE, p.gets, p.store,
                 {c}, Wrote(p, "racelist", date))
        ELSE Eff("", Pick(Dict(<<>>)), FALSE, FALSE, 0, st, {c}, {})

get_points(st, clock, sharecode, kw, net) ==
    LET c == <<"points", sharecode>>
        ld == load_file(st, "points", sharecode, TRUE)
        cached == IF kw.no_return THEN check_file_exists(st, "points", sharecode) ELSE ld.val
        p == process_url_response(st, clock, net, "points", sharecode, 3)
        rd == IF kw.new THEN {} ELSE {c}
        fetched == IF kw.no_return THEN None_ ELSE p.data
    IN  IF ~kw.new /\ ~kw.no_return /\ ~ld.ok
        THEN Eff(sharecode, None_, TRUE, FALSE, 0, st, rd, {})
        ELSE IF ~kw.new /\ cached # None_
        THEN Eff(sharecode, cached, FALSE, TRUE, 0, st, rd, {})
        ELSE IF ~kw.offline
        THEN Eff(sharecode, fetched, p.raised, FALSE, p.gets, p.store, rd, Wrote(p, "points", sharecode))
        ELSE Eff(sharecode, None_, FALSE, FALSE, 0, st, rd, {})

get_sectionals(st, clock, sharecode, kw, net) ==
    LET c == <<"sectionals", sharecode>>
        ld == load_file(st, "sectionals", sharecode, TRUE)
        cached == IF kw.no_return THEN check_file_exists(st, "sectionals", sharecode) ELSE ld.val
        p == process_url_response(st, clock, net, "sectionals", sharecode, 1)
        rd == IF kw.new THEN {} ELSE {c}
        fetched == IF kw.no_return THEN None_ ELSE p.data
    IN  IF ~kw.new /\ ~kw.no_return /\ ~ld.ok
        THEN Eff(sharecode, None_, TRUE, FALSE, 0, st, rd, {})
        ELSE IF ~kw.new /\ cached # None_
        THEN Eff(sharecode, IF ~kw.no_return /\ ScCourse(sharecode) \in METRIC_GATES
                             THEN alter_sectionals_gate_label(cached) ELSE cached, FALSE, TRUE, 0, st, rd, {})
        ELSE IF ~kw.offline
        THEN Eff(sharecode, IF Truthy(fetched) /\ ScCourse(sharecode) \in METRIC_GATES
                             THEN alter_sectionals_gate_label(fetched) ELSE fetched, p.raised, FALSE, p.gets, p.store, rd, Wrote(p, "sectionals", sharecode))
        ELSE Eff(sharecode, None_, FALSE, FALSE, 0, st, rd, {})

get_sectionals_history(st, clock, sharecode, kw, net) ==
    LET c == <<"sectionals-history", sharecode>>
        ld == load_file(st, "sectionals-history", sharecode, TRUE)
        cached == IF kw.no_return THEN check_file_exists(st, "sectionals-history", sharecode) ELSE ld.val
        p == process_url_response(st, clock, net, "sectionals-history", sharecode, 1)
        rd == IF kw.new THEN {} ELSE {c}
        fetched == IF kw.no_return THEN None_ ELSE p.data
    IN  IF ~kw.new /\ ~kw.no_return /\ ~ld.ok
        THEN Eff(sharecode, None_, TRUE, FALSE, 0, st, rd, {})
        ELSE IF ~kw.new /\ cached # None_
        THEN Eff(sharecode, IF ~kw.no_return /\ ScCourse(sharecode) \in METRIC_GATES
                             THEN alter_sectionals_gate_label(cached) ELSE cached, FALSE, TRUE, 0, st, rd, {})
        ELSE IF ~kw.offline
        THEN Eff(sharecode, IF Truthy(fetched) /\ ScCourse(sharecode) \in METRIC_GATES
                             THEN alter_sectionals_gate_label(fetched) ELSE fetched, p.raised, FALSE, p.gets, p.store, rd, Wrote(p, "sectionals-history", sharecode))
        ELSE Eff(sharecode, None_, FALSE, FALSE, 0, st, rd, {})

\* alt is whether os.environ holds ALTLICENCE
get_sectionals_raw(st, clock, sharecode, kw, net, alt) ==
    LET c == <<"sectionals-raw", sharecode>>
        ld == load_file(st, "sectionals-raw", sharecode, TRUE)
        cached == IF kw.no_return THEN check_file_exists(st, "sectionals-raw", sharecode) ELSE ld.val
        p == process_url_response(st, clock, net, "sectionals-raw", sharecode, 1)
        rd == IF kw.new THEN {} ELSE {c}
        fetched == IF kw.no_return THEN None_ ELSE p.data
    IN  IF ~alt THEN Eff(sharecode, None_, FALSE, FALSE, 0, st, {}, {})
        ELSE IF ~kw.new /\ ~kw.no_return /\ ~ld.ok
        THEN Eff(sharecode, None_, TRUE, FALSE, 0, st, rd, {})
        ELSE IF ~kw.new /\ cached # None_
        THEN Eff(sharecode, IF ~kw.no_return /\ ScCourse(sharecode) \in METRIC_GATES
                             THEN alter_sectionals_gate_label(cached) ELSE cached, FALSE, TRUE, 0, st, rd, {})
        ELSE IF ~kw.offline
        THEN Eff(sharecode, IF Truthy(fetched) /\ ScCourse(sharecode) \in METRIC_GATES
                             THEN alter_sectionals_gate_label(fetched) ELSE fetched, p.raised, FALSE, p.gets, p.store, rd, Wrote(p, "sectionals-raw", sharecode))
        ELSE Eff(sharecode, None_, FALSE, FALSE, 0, st, rd, {})

\* faulty variant: any row counts, with or without RX
AnyRX_any_row(data) == data.rows # <<>>

\* any([row.get("RX") for row in data])
AnyRX(data) == \E i \in 1..Len(data.rows) : data.rows[i].RX

get_tracker_performance(st, clock, sharecode, kw, net) ==
    LET c == <<"performance", sharecode>>
        ld == load_file(st, "performance", sharecode, TRUE)
        p == process_url_response(st, clock, net, "performance", sharecode, 1)
        rd == IF kw.new THEN {} ELSE {c}
        data0 == IF kw.new THEN None_ ELSE ld.val
    IN  IF ~kw.new /\ ~ld.ok
        THEN Eff(sharecode, None_, TRUE, FALSE, 0, st, rd, {})
        ELSE IF ~kw.new /\ ld.val # None_ /\ AnyRX(ld.val)
        THEN Eff(sharecode, IF kw.no_return THEN None_ ELSE ld.val, FALSE, TRUE, 0, st, rd, {})
        ELSE IF ~kw.offline
        THEN Eff(sharecode, IF kw.no_return THEN None_ ELSE p.data, p.raised, FALSE, p.gets,
                 p.store, rd, Wrote(p, "performance", sharecode))
        ELSE Eff(sharecode, IF kw.no_return THEN None_ ELSE data0, FALSE, FALSE, 0, st, rd, {})

\* kw.metadata is the race record passed (None_ when absent); racenet answers the
\* single-race request of get_race, net the jumps request
get_obstacles(st, clock, sharecode, kw, racenet, net) ==
    LET lookup == ~Truthy(kw.metadata)
        g == get_race(st, clock, sharecode, NoDate,
                      [new |-> FALSE, offline |-> kw.offline, no_return |-> FALSE,
                       metadata |-> None_], racenet)
        metadata == IF lookup THEN g.ret.data ELSE kw.metadata
        g_gets == IF lookup THEN g.gets ELSE 0
        g_reads == IF lookup THEN g.reads ELSE {}
        c == <<"obstacles", sharecode>>
        ld == load_file(st, "obstacles", sharecode, TRUE)
        cached == IF kw.no_return THEN check_file_exists(st, "obstacles", sharecode) ELSE ld.val
        p == process_url_response(st, clock, net, "obstacles", sharecode, 1)
        rd == g_reads \cup (IF kw.new THEN {} ELSE {c})
        out == IF lookup /\ g.raised
            THEN Eff(sharecode, None_, TRUE, FALSE, g_gets, st, g_reads, {})
            ELSE IF ~Truthy(metadata) \/ ~IsJumpRaceType(metadata.rows[1].RaceType)
            THEN Eff(sharecode, None_, FALSE, FALSE, g_gets, st, g_reads, {})
            ELSE IF ~kw.new /\ ~kw.no_return /\ ~ld.ok
            THEN Eff(sharecode, None_, TRUE, FALSE, g_gets, st, rd, {})
            ELSE IF ~kw.new /\ cached # None_
            THEN Eff(sharecode, cached, FALSE, TRUE, g_gets, st, rd, {})
            ELSE IF ~kw.offline
            THEN Eff(sharecode, IF kw.no_return THEN None_ ELSE p.data, p.raised, FALSE,
                     g_gets + p.gets, p.store, rd, Wrote(p, "obstacles", sharecode))
            ELSE Eff(sharecode, None_, FALSE, FALSE, g_gets, st, rd, {})
    IN  [out EXCEPT !.race = IF lookup /\ g.raised THEN None_ ELSE metadata,
                    !.race_gets = g_gets]

\* faulty variant: the file served is saved again
get_route_resave(st, clock, course_code, kw, net) ==
    LET fname == RouteFname(course_code)
        c == <<"route", fname>>
        ld == load_file(st, "route", fname, FALSE)
        cached == IF kw.no_return THEN check_file_exists(st, "route", fname) ELSE ld.val
        p == process_url_response(st, clock, net, "route", fname, 4)
        rd == IF kw.new THEN {} ELSE {c}
    IN  IF ~kw.new /\ cached # None_
        THEN Eff(course_code, cached, FALSE, TRUE, 0, dump_file(st, "route", fname, ld.val, clock),
                 rd, {c})
        ELSE IF ~kw.offline
        THEN Eff(course_code, p.data, p.raised, FALSE, p.gets, p.store, rd, Wrote(p, "route", fname))
        ELSE Eff(course_code, False_, FALSE, FALSE, 0, st, rd, {})

\* faulty variant: the fetch is not guarded by offline
get_route_always_fetch(st, clock, course_code, kw, net) ==
    LET fname == RouteFname(course_code)
        c == <<"route", fname>>
        ld == load_file(st, "route", fname, FALSE)
        cached == IF kw.no_return THEN check_file_exists(st, "route", fname) ELSE ld.val
        p == process_url_response(st, clock, net, "route", fname, 4)
        rd == IF kw.new THEN {} ELSE {c}
    IN  IF ~kw.new /\ cached # None_
        THEN Eff(course_code, cached, FALSE, TRUE, 0, st, rd, {})
        ELSE Eff(course_code, p.data, p.raised, FALSE, p.gets, p.store, rd, Wrote(p, "route", fname))

get_route(st, clock, course_code, kw, net) ==
    LET fname == RouteFname(course_code)
        c == <<"route", fname>>
        ld == load_file(st, "route", fname, FALSE)
        cached == IF kw.no_return THEN check_file_exists(st, "route", fname) ELSE ld.val
        p == process_url_response(st, clock, net, "route", fname, 4)
        rd == IF kw.new THEN {} ELSE {c}
    IN  IF ~kw.new /\ cached # None_
        THEN Eff(course_code, cached, FALSE, TRUE, 0, st, rd, {})
        ELSE IF ~kw.offline
        THEN Eff(course_code, p.data, p.raised, FALSE, p.gets, p.store, rd, Wrote(p, "route", fname))
        ELSE Eff(course_code, False_, FALSE, FALSE, 0, st, rd, {})

\* ------------------------------------------------ what the remote answers
SectRows(sc) == <<MkRow("r1", IF ScCourse(sc) \in METRIC_GATES THEN "200m" ELSE "1f", <<>>, FALSE, FALSE)>>
SectRows2(sc) == Append(SectRows(sc), MkRow("r2", "Finish", <<>>, FALSE, FALSE))

RaceTypeOf(sc) == IF sc = "01_D0_a" THEN Chase ELSE Flat

RaceRow(sc, pub) == MkRow(sc, "", RaceTypeOf(sc), pub, FALSE)

\* the valid answer of a feed for a key, in its first and its revised edition
Valid(feed, key, ed) ==
    CASE feed = "racelist" ->
            IF key = "D0"
            THEN JsonDumps(List(<<RaceRow("01_D0_a", TRUE), RaceRow("65_D0_b", ed = 2)>>))
            ELSE JsonDumps(List(<<>>))
      [] feed = "race" -> JsonDumps(List(<<RaceRow(key, ed = 2)>>))
      [] feed = "points" ->
            LinesText(<<MkRow("r1", "", <<>>, FALSE, FALSE), MkRow("r2", "", <<>>, FALSE, ed = 2)>>)
      [] feed = "performance" -> JsonDumps(List(<<MkRow("r1", "", <<>>, FALSE, ed = 2)>>))
      [] feed = "route" -> Str(IF ed = 1 THEN "<kml>1</kml>" ELSE "<kml>2</kml>")
      [] OTHER -> JsonDumps(List(IF ed = 1 THEN SectRows(key) ELSE SectRows2(key)))

NetOf(feed, key, mode) ==
    CASE mode = "v1" -> [fails |-> 0, body |-> Valid(feed, key, 1)]
      [] mode = "v2" -> [fails |-> 0, body |-> Valid(feed, key, 2)]
      [] mode = "flaky" -> [fails |-> 1, body |-> Valid(feed, key, 1)]
      [] mode = "down" -> [fails |-> TryLimit, body |-> Str("")]
      [] mode = "denied" -> [fails |-> 0, body |-> Str("Permission Denied")]
      [] mode = "blank" -> [fails |-> 0, body |-> Str("")]
      [] mode = "notavail" -> [fails |-> 0, body |-> Str("File not available - please contact us.")]
      [] mode = "emptyobj" -> [fails |-> 0, body |-> JsonDumps(Dict(<<>>))]
      [] mode = "emptylist" -> [fails |-> 0, body |-> JsonDumps(List(<<>>))]
      [] mode = "tiny" -> [fails |-> 0, body |-> Str("ok")]
      [] OTHER -> [fails |-> 0, body |-> Str("<html>")]

\* ------------------------------------------------------- bulk operations
\* world[k] is the answer the remote gives to every request about key k
\* during one bulk call.  The tasks of one apply_thread_pool call work on
\* different files, so the store they leave is the one a run in input order
\* leaves; a task that raises does not stop the others of a pool.
Resolve(label, st, clock, key, kw, world, alt) ==
    CASE label = "sectionals" ->
            get_sectionals(st, clock, key, kw, NetOf("sectionals", key, world[key]))
      [] label = "sectionals-raw" ->
            get_sectionals_raw(st, clock, key, kw, NetOf("sectionals-raw", key, world[key]), alt)
      [] label = "sectionals-history" ->
            get_sectionals_history(st, clock, key, kw,
                                   NetOf("sectionals-history", key, world[key]))
      [] label = "points" -> get_points(st, clock, key, kw, NetOf("points", key, world[key]))
      [] label = "obstacles" ->
            get_obstacles(st, clock, key, kw, NetOf("race", key, world[key]),
                          NetOf("obstacles", key, world[key]))
      [] label = "performance" ->
            get_tracker_performance(st, clock, key, kw, NetOf("performance", key, world[key]))
      [] label = "route" ->
            get_route(st, clock, key, kw, NetOf("route", RouteFname(key), world[RouteFname(key)]))
      [] OTHER ->
            get_racelist(st, clock, key, "", kw,
                         NetOf("racelist", DateStr(key), world[DateStr(key)]))

Pool0(st) ==
    [store |-> st, results |-> <<>>, raised |-> FALSE, gets |-> 0, reads |-> {}, writes |-> {},
     tasks |-> <<>>]

\* what the pool holds after one more task ended with effect e
Collect(acc, e) ==
    [store |-> e.store,
     results |-> IF e.raised THEN acc.results ELSE Append(acc.results, e.ret),
     raised |-> acc.raised \/ e.raised,
     gets |-> acc.gets + e.gets,
     reads |-> acc.reads \cup e.reads,
     writes |-> acc.writes \cup e.writes,
     tasks |-> acc.tasks]

\* tasks lists the elements of the iterable func was called on
Ran(acc, key) == [acc EXCEPT !.tasks = Append(@, key)]

\* e and a are bound to the one value each, so every task is evaluated once
RECURSIVE RunTasks(_, _, _, _, _, _, _, _)
RunTasks(label, keys, kw, world, alt, clock, stop, acc) ==
    IF keys = <<>> \/ (stop /\ acc.raised) THEN acc
    ELSE CHOOSE out \in
            {RunTasks(label, Tail(keys), kw, world, alt, clock, stop, a) :
                a \in {Ran(Collect(acc, e), Head(keys)) :
                          e \in {Resolve(label, acc.store, clock, Head(keys), kw, world, alt)}}} :
            TRUE

MAX_THREADS == 6

Min(a, b) == IF a < b THEN a ELSE b

\* faulty variant: one worker per element of the iterable
Threads_per_key(iterable) == Len(iterable)

\* threads = min([MAX_THREADS, len(iterable)])
Threads(iterable) == Min(MAX_THREADS, Len(iterable))

\* results is the list returned when raised is FALSE; with raised TRUE the
\* exception of a task leaves apply_thread_pool (res.result() or the call itself)
apply_thread_pool(label, keys, kw, world, alt, st, clock) ==
    LET threads == Threads(keys)
    IN  IF threads > 1 THEN RunTasks(label, keys, kw, world, alt, clock, FALSE, Pool0(st))
        ELSE IF keys # <<>> THEN RunTasks(label, keys, kw, world, alt, clock, TRUE, Pool0(st))
        ELSE Pool0(st)

RECURSIVE MergeRows(_, _)
MergeRows(acc, results) ==
    IF results = <<>> THEN acc
    ELSE MergeRows(IF Truthy(Head(results).data) THEN IndexRows(acc, Head(results).data.rows)
                   ELSE acc, Tail(results))

\* start_date and end_date are datetimes in seconds
get_racelist_range(st, clock, start_date, end_date0, kw, world) ==
    LET end_date == (IF end_date0 < start_date THEN start_date ELSE end_date0) + DaySecs
        range_ == (end_date - start_date) \div DaySecs
        dates == [dt \in 1..range_ |-> start_date + (dt - 1) * DaySecs]
    IN  CHOOSE out \in
            {[r EXCEPT !.results = <<[key |-> "", data |-> Dict(MergeRows(<<>>, r.results))]>>] :
                r \in {apply_thread_pool("racelist", dates,
                                         [new |-> kw.new, offline |-> kw.offline,
                                          no_return |-> FALSE, metadata |-> None_],
                                         world, FALSE, st, clock)}} :
            TRUE

\* the part of RaceMetadata.apply_filter that get_data and update use: a new
\* RaceMetadata whose only predicate is published (None_ for no predicate)
apply_filter(rows, published) ==
    LET data == IndexRows(<<>>, rows)
    IN  IF published = None_ THEN data
        ELSE SelectSeq(data, LAMBDA row : row.Published = (published = True_))

SeqOfI(rows) == [i \in 1..Len(rows) |-> rows[i].I]

labels2func == <<"sectionals", "sectionals-raw", "sectionals-history", "points",
                 "obstacles", "performance">>

\* what get_data holds after the pool r of one label ended
Gather(acc, label, r) ==
    [store |-> r.store, raised |-> r.raised, gets |-> acc.gets + r.gets,
     reads |-> acc.reads \cup r.reads, writes |-> acc.writes \cup r.writes,
     labels |-> IF r.raised THEN acc.labels ELSE acc.labels \cup {label},
     tasks |-> acc.tasks \o [j \in 1..Len(r.tasks) |-> <<label, r.tasks[j]>>],
     items |-> IF r.raised THEN acc.items
               ELSE acc.items \cup {<<label, r.results[j].key, r.results[j].data>> :
                                   j \in {n \in 1..Len(r.results) : Truthy(r.results[n].data)}}]

RECURSIVE GetDataLoop(_, _, _, _, _, _, _, _)
GetDataLoop(i, sharecodes, request, kw, world, alt, clock, acc) ==
    IF i > Len(labels2func) \/ acc.raised THEN acc
    ELSE IF labels2func[i] \notin request
    THEN GetDataLoop(i + 1, sharecodes, request, kw, world, alt, clock, acc)
    ELSE CHOOSE out \in
            {GetDataLoop(i + 1, sharecodes, request, kw, world, alt, clock, a) :
                a \in {Gather(acc, labels2func[i], r) :
                          r \in {apply_thread_pool(labels2func[i], sharecodes, kw, world, alt,
                                                   acc.store, clock)}}} :
            TRUE

Data0(st) ==
    [store |-> st, raised |-> FALSE, gets |-> 0, reads |-> {}, writes |-> {}, labels |-> {},
     tasks |-> <<>>, items |-> {}]

\* faulty variant: without a filter every record of the dict is dispatched
get_data_unfiltered(st, clock, sharecodes, meta, request, filter, kw, world, alt) ==
    LET scs == IF meta.kind = "dict" THEN SeqOfI(apply_filter(meta.rows, filter)) ELSE sharecodes
    IN  IF meta.kind # "dict" /\ sharecodes = <<>> THEN Data0(st)
        ELSE GetDataLoop(1, scs, request, kw, world, alt, clock, Data0(st))

\* sharecodes is the list passed, or, when meta is a dict of race records, the
\* dict; filter is the published predicate of the RaceMetadata passed, or
\* None_ when no filter is passed
get_data(st, clock, sharecodes, meta, request, filter, kw, world, alt) ==
    LET published == IF filter # None_ THEN filter
                     ELSE IF \A x \in {"sectionals-raw", "sectionals-history", "points", "obstacles"} :
                                x \notin request
                          THEN True_ ELSE None_
        scs == IF meta.kind = "dict" THEN SeqOfI(apply_filter(meta.rows, published)) ELSE sharecodes
    IN  IF meta.kind # "dict" /\ sharecodes = <<>> THEN Data0(st)
        ELSE GetDataLoop(1, scs, request, kw, world, alt, clock, Data0(st))

route_xml_to_json(x) ==
    IF ~Truthy(x) THEN [ok |-> TRUE, val |-> None_]
    ELSE IF x.kind = "str" /\ Size(x) > 256
    THEN [ok |-> TRUE, val |-> [kind |-> "list", tag |-> x.tag, rows |-> <<>>]]
    ELSE [ok |-> FALSE, val |-> None_]

\* the dict get_routes returns from the pool r of route texts
RoutesOut(r, rl, lookup) ==
    LET rows == {j \in 1..Len(r.results) : Truthy(r.results[j].data)}
        bad == \E j \in rows : ~route_xml_to_json(r.results[j].data).ok
    IN  [store |-> r.store, raised |-> r.raised \/ bad, gets |-> r.gets,
         reads |-> r.reads \cup (IF lookup THEN rl.reads ELSE {}), writes |-> r.writes,
         labels |-> {},
         tasks |-> [j \in 1..Len(r.tasks) |-> <<"route", r.tasks[j]>>],
         items |-> IF r.raised \/ bad THEN {}
                   ELSE {<<"route", r.results[j].key, route_xml_to_json(r.results[j].data).val>> :
                           j \in rows}]

\* course_codes = <<>> stands for course_codes = None (or an empty list); the
\* year of cached racelists scanned then covers the days of the model
get_routes(st, clock, course_codes0, kw, world) ==
    LET lookup == course_codes0 = <<>>
    IN  CHOOSE out \in
            {IF lookup /\ rl.raised
             THEN [Data0(st) EXCEPT !.raised = TRUE, !.reads = rl.reads]
             ELSE LET found == {ScCourse(sc) : sc \in {rl.results[1].data.rows[i].I :
                                                          i \in 1..Len(rl.results[1].data.rows)}}
                      course_codes == IF ~lookup THEN course_codes0
                                      ELSE IF found = {} THEN <<>>
                                      ELSE IF Cardinality(found) = 1
                                      THEN <<CHOOSE c \in found : TRUE>>
                                      ELSE <<"01", "65">>
                  IN  CHOOSE o \in
                          {RoutesOut(r, rl, lookup) :
                              r \in {apply_thread_pool("route", course_codes, kw, world, FALSE,
                                                       st, clock)}} :
                          TRUE :
                rl \in {IF lookup
                        THEN get_racelist_range(st, clock, 0, DaySecs,
                                                [new |-> FALSE, offline |-> TRUE,
                                                 no_return |-> FALSE, metadata |-> None_], world)
                        ELSE Pool0(st) @@ [results |-> <<[key |-> "", data |-> Dict(<<>>)]>>]}} :
            TRUE

\* items are what the get_data call held when it returned, which update
\* drops
\* faulty variant: the caller's no_return reaches the bulk fetch
update_passing_kw(st, clock, start_date, end_date, request, filter, kw, world, alt) ==
    CHOOSE out \in
        {IF rl.raised
         THEN [Data0(rl.store) EXCEPT !.raised = TRUE, !.gets = rl.gets, !.reads = rl.reads,
                                      !.writes = rl.writes]
         ELSE CHOOSE o \in
                 {[d EXCEPT !.gets = @ + rl.gets, !.reads = @ \cup rl.reads,
                            !.writes = @ \cup rl.writes, !.labels = {}] :
                     d \in {get_data(rl.store, clock, <<>>, rl.results[1].data, request,
                                     IF filter = None_ THEN True_ ELSE filter,
                                     kw, world, alt)}} :
                 TRUE :
            rl \in {get_racelist_range(st, clock, start_date, end_date, kw, world)}} :
        TRUE

update(st, clock, start_date, end_date, request, filter, kw, world, alt) ==
    CHOOSE out \in
        {IF rl.raised
         THEN [Data0(rl.store) EXCEPT !.raised = TRUE, !.gets = rl.gets, !.reads = rl.reads,
                                      !.writes = rl.writes]
         ELSE CHOOSE o \in
                 {[d EXCEPT !.gets = @ + rl.gets, !.reads = @ \cup rl.reads,
                            !.writes = @ \cup rl.writes, !.labels = {}] :
                     d \in {get_data(rl.store, clock, <<>>, rl.results[1].data, request,
                                     IF filter = None_ THEN True_ ELSE filter,
                                     [kw EXCEPT !.no_return = TRUE], world, alt)}} :
                 TRUE :
            rl \in {get_racelist_range(st, clock, start_date, end_date, kw, world)}} :
        TRUE

\* ------------------------------------------- construction of the feed
\* environ maps the environment variables the constructor reads to a string
\* or None_ (unset); dirs are the directories that exist; the nine set_*_path
\* calls of __init__ run in the order of PathOrder.
PathOrder == <<"fixtures", "racelist", "points", "route", "sectionals", "sectionals-history",
               "sectionals-raw", "obstacles", "performance">>

PathEnv(t) ==
    CASE t = "fixtures" -> "FIXTURES_PATH"
      [] t = "racelist" -> "RACELIST_PATH"
      [] t = "sectionals" -> "SEC_PATH"
      [] t = "points" -> "GPS_PATH"
      [] t = "route" -> "ROUTE_PATH"
      [] t = "sectionals-history" -> "SEC_HIST_PATH"
      [] t = "sectionals-raw" -> "SEC_RAW_PATH"
      [] t = "obstacles" -> "JUMPS_PATH"
      [] OTHER -> "PERFORMANCE_PATH"

DefaultDir(t) ==
    CASE t = "fixtures" -> "fixtures"
      [] t = "racelist" -> "racelist"
      [] t = "sectionals" -> "sectionals"
      [] t = "points" -> "gpsData"
      [] t = "route" -> "routes"
      [] t = "sectionals-history" -> "sectionals-hist"
      [] t = "sectionals-raw" -> "sectionals-raw"
      [] t = "obstacles" -> "jumps"
      [] OTHER -> "tracker-errors"

EnvNames == {"GMAXLICENCE"} \cup {PathEnv(PathOrder[i]) : i \in 1..Len(PathOrder)}

\* the licence property: os.environ.get("GMAXLICENCE")
licence(env) == env["GMAXLICENCE"]

\* faulty variant: the licence passed is kept by the instance being built
\* and the environment is left as it was
licence_setter_private(env, lic) == env

\* the setter of the licence property
licence_setter(env, lic) == IF lic # None_ THEN [env EXCEPT !["GMAXLICENCE"] = lic] ELSE env

\* faulty variant: an instance always counts as valid
GmaxFeed__bool__always(env) == TRUE

GmaxFeed__bool__(env) == licence(env) # None_

\* path or os.environ.get(...) or default
set_path(t, path, env) == Or(path, Or(env[PathEnv(t)], Str(DefaultDir(t))))

_confirm_exists(ds, path) == IF path \in ds THEN ds ELSE ds \cup {path}

RECURSIVE SetPaths(_, _, _, _, _)
SetPaths(i, env, ds, paths, acc) ==
    IF i > Len(PathOrder) THEN [dirs |-> ds, paths |-> acc]
    ELSE SetPaths(i + 1, env, _confirm_exists(ds, set_path(PathOrder[i], paths[PathOrder[i]], env)),
                  paths,
                  [acc EXCEPT ![PathOrder[i]] = set_path(PathOrder[i], paths[PathOrder[i]], env)])

\* GmaxFeed(licence = lic, <t>_path = paths[t]): raised tells that the
\* constructor raised, so that the caller holds no instance
GmaxFeed__init__(env, ds, lic, paths) ==
    LET env1 == licence_setter(env, lic)
        sp == SetPaths(1, env1, ds, paths, [t \in Types |-> None_])
    IN  [environ |-> env1, dirs |-> sp.dirs, paths |-> sp.paths,
         raised |-> ~GmaxFeed__bool__(env1)]

NoFeed ==
    [built |-> 0, licence |-> None_, had |-> None_, args |-> [t \in Types |-> None_],
     paths |-> [t \in Types |-> None_], raised |-> FALSE, instance |-> FALSE]

\* ---------------------------------------------------------- RaceMetadata
\* A RaceMetadata object is [_data, _list, _filter]: _data and _list are
\* dicts, here functions from sharecode to record; a record has the fields
\* I, RaceType, Country, Racecourse, Published and PostTime (parsed, seconds).
\* A predicate is a record of the seven fields: a collection is [some, val]
\* with some = FALSE for None, a date is [some, val], published is None_,
\* True_ or False_.  The _filter {} of a new object answers None for every
\* field, as the predicate NoPred does.
NoneSet == [some |-> FALSE, val |-> {}]
SomeSet(v) == [some |-> TRUE, val |-> v]
NoneDate == [some |-> FALSE, val |-> 0]
SomeDate(d) == [some |-> TRUE, val |-> d]

NoPred ==
    [countries |-> NoneSet, courses |-> NoneSet, course_codes |-> NoneSet, published |-> None_,
     start_date |-> NoneDate, end_date |-> NoneDate, race_types |-> NoneSet]

\* x or y, for collections (an empty collection is falsy) and for dates
OrSet(x, y) == IF x.some /\ x.val # {} THEN x ELSE y
OrDate(x, y) == IF x.some THEN x ELSE y

\* data arguments: None, a list of records, or a dict of records
NoData == [kind |-> "None", rows |-> <<>>]
ListData(rows) == [kind |-> "list", rows |-> rows]
DictData(rows) == [kind |-> "dict", rows |-> rows]

\* for row in data: self._data[row['I']] = row
RECURSIVE PutRows(_, _)
PutRows(d, rows) ==
    IF rows = <<>> THEN d
    ELSE PutRows([k \in DOMAIN d \cup {Head(rows).I} |->
                     IF k = Head(rows).I THEN Head(rows) ELSE d[k]], Tail(rows))

RaceMetadata_clear(self) == [self EXCEPT !._data = <<>>, !._list = <<>>]

\* data arguments, continued: data is None and direc names a folder whose
\* racelist files hold rows, each under its sharecode
DirData(rows) == [kind |-> "direc", rows |-> rows]

\* faulty variant: the records are added and the view is left as it was
import_data_keeping_view(self, data) ==
    IF data.kind = "None" THEN self
    ELSE [self EXCEPT !._data = PutRows(self._data, data.rows)]

\* data of kind None stands for a call with neither data nor direc
import_data(self, data) ==
    IF data.kind = "None" THEN self
    ELSE [self EXCEPT !._data = PutRows(self._data, data.rows),
                      !._list = PutRows(self._data, data.rows)]

RaceMetadata__init__(data) ==
    [import_data(RaceMetadata_clear([_data |-> <<>>, _list |-> <<>>, _filter |-> NoPred]), data)
     EXCEPT !._filter = NoPred]

\* opts is accepted and never looked at
\* faulty variant: storing the predicate also resets the view to the full set
set_filter_resetting(self, args, opts) ==
    [self |-> [self EXCEPT !._filter = args, !._list = self._data], raised |-> FALSE]

set_filter(self, args, opts) == [self |-> [self EXCEPT !._filter = args], raised |-> FALSE]

\* the predicate apply_filter works with: each argument, or the stored field
Effective(self, args) ==
    [countries |-> OrSet(args.countries, self._filter.countries),
     courses |-> OrSet(args.courses, self._filter.courses),
     course_codes |-> OrSet(args.course_codes, self._filter.course_codes),
     race_types |-> OrSet(args.race_types, self._filter.race_types),
     published |-> Or(args.published, self._filter.published),
     start_date |-> OrDate(args.start_date, self._filter.start_date),
     end_date |-> OrDate(args.end_date, self._filter.end_date)]

\* faulty variant: a record that passes one of the supplied fields is kept
Keeps_any(sc, row, e) ==
    \/ e = NoPred
    \/ e.race_types.some /\ row.RaceType \in e.race_types.val
    \/ e.countries.some /\ row.Country \in e.countries.val
    \/ e.courses.some /\ row.Racecourse \in e.courses.val
    \/ e.course_codes.some /\ ScCourse(sc) \in e.course_codes.val
    \/ e.published # None_ /\ row.Published = (e.published = True_)
    \/ e.start_date.some /\ ~(row.PostTime < e.start_date.val)
    \/ e.end_date.some /\ ~(row.PostTime > e.end_date.val)

\* the tests of the loop body: FALSE where the loop says continue
Keeps(sc, row, e) ==
    /\ e.race_types.some => row.RaceType \in e.race_types.val
    /\ e.countries.some => row.Country \in e.countries.val
    /\ e.courses.some => row.Racecourse \in e.courses.val
    /\ e.course_codes.some => ScCourse(sc) \in e.course_codes.val
    /\ e.published # None_ => row.Published = (e.published = True_)
    /\ e.start_date.some => ~(row.PostTime < e.start_date.val)
    /\ e.end_date.some => ~(row.PostTime > e.end_date.val)

Select(d, e) == [sc \in {k \in DOMAIN d : Keeps(k, d[k], e)} |-> d[sc]]

\* faulty variant: the loop runs over the previous view
apply_filter_of_view(self, args, data) ==
    LET s == import_data(self, data)
        e == Effective(s, args)
    IN  IF e = NoPred THEN [s EXCEPT !._list = s._data]
        ELSE [s EXCEPT !._list = Select(s._list, e)]

RaceMetadata_apply_filter(self, args, data) ==
    LET s == import_data(self, data)
        e == Effective(s, args)
    IN  IF e = NoPred THEN [s EXCEPT !._list = s._data]
        ELSE [s EXCEPT !._list = Select(s._data, e)]

\* a predicate given through opts: the fields named keys, each with value v
Opts(keys, v) == [k \in keys |-> v]

\* the last operation on the object: its arguments, whether it raised, the
\* keys of the view an apply_filter or import_data met, and, when the operation before it was an
\* apply_filter (chained), the predicate passed to that one
MetaOp(op, args, opts, data, raised, view0, before) ==
    [op |-> op, args |-> args, opts |-> opts, data |-> data, raised |-> raised,
     view0 |-> view0, chained |-> before.op = "apply_filter",
     args0 |-> IF before.op = "apply_filter" THEN before.args ELSE NoPred]

NoOp ==
    [op |-> "none", args |-> NoPred, opts |-> Opts({}, None_), data |-> NoData,
     raised |-> FALSE, view0 |-> {}, chained |-> FALSE, args0 |-> NoPred]

\* ------------------------------------- the workers of apply_thread_pool
\* With threads > 1 the caller submits one task per element to a
\* ThreadPoolExecutor(threads), leaves the with block when every task has
\* ended, and reads the futures in the order of submission.  A task reads
\* the store when a worker begins it and its files reach the store when it
\* ends; e is what the resolver did on the store it met.
\* dump_file opens the file with open(path, 'w'), which empties it, and
\* the text reaches the file from its beginning when the file is closed;
\* nothing keeps two tasks from having the same file open.  A text written
\* over a longer one that another task wrote since the file was emptied
\* leaves the end of the longer one behind it: the file is torn.
Torn == [kind |-> "str", tag |-> "torn", rows |-> <<>>]

\* faulty variant: the text written replaces whatever the file holds
Overwrite_whole(cur, new) == new

Overwrite(cur, new) ==
    IF cur.exists /\ Size(cur.text) > Size(new.text) THEN [new EXCEPT !.text = Torn] ELSE new

\* open(path, 'w') for the files a task writes
OpenFiles(st, e, clock) ==
    [t \in Types |-> [k \in KeysOf(t) |->
        IF <<t, k>> \in e.writes THEN [exists |-> TRUE, text |-> Str(""), mtime |-> clock]
        ELSE st[t][k]]]

ApplyWrites(st, e) ==
    [t \in Types |-> [k \in KeysOf(t) |->
        IF <<t, k>> \in e.writes THEN Overwrite(st[t][k], e.store[t][k]) ELSE st[t][k]]]

\* the cache file a task of the label is about
Target(label, key) ==
    CASE label = "racelist" -> <<"racelist", DateStr(key)>>
      [] label = "route" -> <<"route", RouteFname(key)>>
      [] OTHER -> <<label, key>>

\* what a future holds: the dict the resolver returned, or its exception;
\* files are the texts the task wrote
Future(e) ==
    [ret |-> e.ret, raised |-> e.raised,
     files |-> {<<c, e.store[c[1]][c[2]].text>> : c \in e.writes}]

\* faulty variant: the futures are read in the order of completion
PoolResults_as_completed(p) == p.completed

\* [res.result() for res in results]
PoolResults(p) == [i \in 1..Len(p.keys) |-> p.results[i]]

\* d[item.key] = item.data for a dict held as items in insertion order
PutItem(items, item) ==
    IF \E i \in 1..Len(items) : items[i].key = item.key
    THEN [i \in 1..Len(items) |-> IF items[i].key = item.key THEN item ELSE items[i]]
    ELSE Append(items, item)

RECURSIVE PutItems(_, _)
PutItems(acc, items) ==
    IF items = <<>> THEN acc ELSE PutItems(PutItem(acc, Head(items)), Tail(items))

\* {row['sc']: row['data'] for row in result if row['data']}
KeyedRows(rets) == PutItems(<<>>, SelectSeq(rets, LAMBDA row : Truthy(row.data)))

\* the mapping the bulk operation of the label makes of the list returned:
\* get_racelist_range updates one dict with every truthy row, get_routes
\* keeps processing_function(row["data"]) of the truthy rows under
\* row["course_code"], get_data keeps the truthy rows under row["sc"]
Merged(label, rets) ==
    IF label = "racelist" THEN [raised |-> FALSE, ret |-> Dict(MergeRows(<<>>, rets))]
    ELSE IF label = "route"
    THEN LET kept == KeyedRows(rets)
             bad == \E i \in 1..Len(kept) : ~route_xml_to_json(kept[i].data).ok
         IN  [raised |-> bad,
              ret |-> IF bad THEN None_
                      ELSE Dict([i \in 1..Len(kept) |->
                                   [key |-> kept[i].key,
                                    data |-> route_xml_to_json(kept[i].data).val]])]
    ELSE [raised |-> FALSE, ret |-> Dict(KeyedRows(rets))]

\* the end of the call: the first exception in the order of submission
\* leaves it, otherwise the caller merges the list
PoolReturn(p) ==
    LET rs == PoolResults(p)
    IN  IF \E i \in 1..Len(rs) : rs[i].raised THEN [raised |-> TRUE, ret |-> None_]
        ELSE Merged(p.label, [i \in 1..Len(rs) |-> rs[i].ret])

NoPool == [phase |-> "none"]

\* ----------------------------------------------------------------- state
\* store       the cache files of the nine directories
\* now         the clock; a file written by a call gets mtime = now
\* altlicence  whether the environment holds ALTLICENCE
\* calls       number of calls made so far
\* last        the last call: its arguments and what it did
\*
\* The cache outlives the process: construction finds either empty
\* directories or the files an earlier run fetched: the first edition of
\* every feed written at the staleness boundary of day 0, or the revised
\* edition written one second after it.  A day-keyed call happens at the
\* clock or later (the clock moves to the time of the call); the other
\* resolvers never read a clock or an mtime.  The environment may set or
\* unset ALTLICENCE before a get_sectionals_raw call.
\* A behaviour follows one client working on one cache directory: after the
\* first call only the resolvers of the same directory are called (Session).
\* Resolvers of different directories share no file, except that
\* get_obstacles reads the racelist directory, which the initial cache covers.
Limit0 == StaleDays * DaySecs

Instants == Limit0..(Limit0 + MaxAhead)

\* the dates passed by callers: midnight of day 0 and one second later
DateInputs == {0, 1}

Kw(new, offline, no_return, metadata) ==
    [new |-> new, offline |-> offline, no_return |-> no_return, metadata |-> metadata]

Flags == {Kw(n, o, r, None_) : n \in BOOLEAN, o \in BOOLEAN, r \in BOOLEAN}

VersionOf(t) ==
    CASE t = "racelist" -> 2 [] t = "points" -> 3 [] t = "route" -> 4 [] OTHER -> 1

\* the store an earlier run leaves that fetched edition ed of every feed at mtime
WarmStore(ed, mtime) ==
    [t \in Types |-> [k \in KeysOf(t) |->
        process_url_response(EmptyStore, mtime, [fails |-> 0, body |-> Valid(t, k, ed)],
                             t, k, VersionOf(t)).store[t][k]]]

MkLast(op, key, date, kw, e) ==
    [op |-> op, key |-> key, date |-> date, new |-> kw.new, offline |-> kw.offline,
     no_return |-> kw.no_return, metadata |-> kw.metadata, ret |-> e.ret,
     raised |-> e.raised, served |-> e.served, gets |-> e.gets, reads |-> e.reads,
     writes |-> e.writes, race |-> e.race, race_gets |-> e.race_gets, mode |-> "none",
     racemode |-> "none", found |-> NoFile, request |-> {}, keys |-> <<>>, world |-> <<>>,
     labels |-> {}, items |-> {}, tasks |-> <<>>, range |-> <<>>,
     prev |-> [op |-> "init", key |-> "", date |-> NoDate, mode |-> "none", served |-> FALSE,
               had |-> FALSE]]

\* what a call record keeps of the call before it: the call, the answer of the
\* remote, whether it served the cache file and whether it met one
Brief(l) ==
    [op |-> l.op, key |-> l.key, date |-> l.date, mode |-> l.mode, served |-> l.served,
     had |-> l.found.exists]

\* the record of a bulk call: keys are the keys dispatched on, d what it did
MkBulk(op, keys, request, kw, world, ret, d) ==
    [MkLast(op, "", NoDate, kw, Eff("", ret, d.raised, FALSE, d.gets, d.store, d.reads, d.writes))
     EXCEPT !.request = request, !.keys = keys, !.world = world, !.labels = d.labels,
            !.tasks = d.tasks, !.range = IF "range" \in DOMAIN d THEN d.range ELSE <<>>,
            !.items = d.items]

\* The feed object of a behaviour of the cache layer is constructed with the
\* licence in the environment and the default directories; no RaceMetadata
\* object and no pool is looked at.
CtorIdle ==
    /\ environ = [v \in EnvNames |-> IF v = "GMAXLICENCE" THEN Str("my_licence") ELSE None_]
    /\ dirs = {}
    /\ gmax_feed = NoFeed

MetaIdle ==
    /\ _data = <<>>
    /\ _list = <<>>
    /\ _filter = NoPred
    /\ meta_op = NoOp

PoolIdle == pool = NoPool

\* ------------------------------------------- the retry loop of read_url
\* u describes a running read_url call: the GETs issued (gets), the
\* responses received (answered), the time.sleep(1) calls made (slept), idx
\* and txt as in the code.  The remote fails the first net.fails GETs with
\* a transport error and answers the next one with net.body.

\* faulty variant: a response does not leave the loop
read_url_attempt_no_break(u) ==
    IF u.idx < u.net.fails
    THEN [u EXCEPT !.gets = @ + 1, !.slept = @ + 1, !.idx = @ + 1]
    ELSE [u EXCEPT !.gets = @ + 1, !.answered = @ + 1, !.idx = @ + 1,
                   !.txt = IF u.net.body = Str("Permission Denied") THEN False_ ELSE u.net.body]

\* one pass of the body of `while idx < try_limit`
read_url_attempt(u) ==
    IF u.idx < u.net.fails
    THEN [u EXCEPT !.gets = @ + 1, !.slept = @ + 1, !.idx = @ + 1]
    ELSE [u EXCEPT !.gets = @ + 1, !.answered = @ + 1, !.phase = "done",
                   !.txt = IF u.net.body = Str("Permission Denied") THEN False_ ELSE u.net.body]

\* if not url: return False; txt = False; idx = 0
read_url_called(has_url, try_limit, net) ==
    [phase |-> IF has_url THEN "loop" ELSE "done", has_url |-> has_url,
     try_limit |-> try_limit, net |-> net, idx |-> 0, gets |-> 0, answered |-> 0,
     slept |-> 0, txt |-> False_]

NoUrl == [phase |-> "none"]

UrlIdle == url = NoUrl

NoUpdater ==
    [phase |-> "none", active |-> FALSE, jobs |-> FALSE, wait |-> 0, thr |-> "none",
     term |-> "no", failed |-> FALSE]

UpdaterIdle == updater = NoUpdater

NoRec == [phase |-> "none"]

RecIdle == rec = NoRec

NoUtil == [op |-> "none"]

UtilIdle == util = NoUtil

Init ==
    /\ store \in {EmptyStore, WarmStore(1, Limit0), WarmStore(2, Limit0 + 1)}
    /\ now = Limit0 + 1
    /\ altlicence = FALSE
    /\ calls = 0
    /\ last = MkLast("init", "", NoDate, Kw(FALSE, FALSE, FALSE, None_),
                     Eff("", None_, FALSE, FALSE, 0, EmptyStore, {}, {}))
    /\ CtorIdle
    /\ MetaIdle
    /\ PoolIdle
    /\ UrlIdle
    /\ UpdaterIdle
    /\ RecIdle
    /\ UtilIdle

\* the cache directory an operation works on
Session(op) ==
    CASE op \in {"get_racelist", "get_race"} -> "racelist"
      [] OTHER -> op

CanCall(op) ==
    /\ calls < MaxCalls
    /\ last.op = "init" \/ Session(last.op) = Session(op)

CanCallBulk(op) ==
    /\ calls < MaxBulk
    /\ last.op = "init" \/ Session(last.op) = Session(op)

\* the cache file a resolver call is about
EntryOf(op, key, date) ==
    CASE op = "get_fixtures" -> <<"fixtures", DateStr(date)>>
      [] op = "get_race" -> <<"racelist", DateStr(IF date = NoDate THEN ScDate(key) ELSE date)>>
      [] op = "get_racelist" -> <<"racelist", DateStr(IF key # "" THEN ScDate(key) ELSE date)>>
      [] op = "get_points" -> <<"points", key>>
      [] op = "get_sectionals" -> <<"sectionals", key>>
      [] op = "get_sectionals_history" -> <<"sectionals-history", key>>
      [] op = "get_sectionals_raw" -> <<"sectionals-raw", key>>
      [] op = "get_tracker_performance" -> <<"performance", key>>
      [] op = "get_obstacles" -> <<"obstacles", key>>
      [] OTHER -> <<"route", RouteFname(key)>>

\* One resolver call: found is the cache file of the key as the call met it,
\* mode the answer of the remote to the request of the feed when one was
\* issued, racemode the answer to the single-race request of get_obstacles.
Did(op, key, date, kw, m, rm, e) ==
    /\ calls' = calls + 1
    /\ store' = e.store
    /\ last' = [MkLast(op, key, date, kw, e) EXCEPT
                   !.mode = IF e.gets > e.race_gets THEN m ELSE "none",
                   !.racemode = IF e.race_gets > 0 THEN rm ELSE "none",
                   !.found = store[EntryOf(op, key, date)[1]][EntryOf(op, key, date)[2]],
                   !.prev = Brief(last)]
    /\ UNCHANGED <<ctorvars, metavars, poolvars, urlvars, updatervars, recvars, utilvars>>

\* the answers the remote gives to a request of a feed
Modes(feed) ==
    {"v1", "v2", "down", "denied", "emptylist", "garbage"}
    \cup (IF feed = "route" THEN {"notavail", "emptyobj", "tiny"} ELSE {})
    \cup (IF feed = "sectionals" THEN {"flaky", "blank", "notavail"} ELSE {})
    \cup (IF feed = "racelist" THEN {"emptyobj"} ELSE {})

RaceModes == {"v1", "down", "garbage"}

GetFixtures ==
    /\ CanCall("get_fixtures")
    /\ \E at \in Instants, date \in DateInputs, kw \in Flags, m \in Modes("fixtures") :
        /\ at >= now
        /\ now' = at
        /\ \E e \in {get_fixtures(store, at, date, kw, NetOf("fixtures", DateStr(date), m))} :
                Did("get_fixtures", DateStr(date), date, kw, m, "none", e)
    /\ UNCHANGED altlicence

GetRace ==
    /\ CanCall("get_race")
    /\ \E at \in Instants, sc \in Sharecodes, date \in {NoDate, 1}, kw \in Flags, m \in Modes("race") :
        /\ at >= now
        /\ now' = at
        /\ ~kw.no_return
        /\ \E e \in {get_race(store, at, sc, date, kw, NetOf("race", sc, m))} :
                Did("get_race", sc, date, kw, m, "none", e)
    /\ UNCHANGED altlicence

GetRacelist ==
    /\ CanCall("get_racelist")
    /\ \E at \in Instants, date \in DateInputs, sc \in {"", "01_D0_a"}, kw \in Flags,
          m \in Modes("racelist") :
        /\ at >= now
        /\ now' = at
        /\ ~kw.no_return
        /\ sc # "" => date = 0
        /\ \E e \in {get_racelist(store, at, date, sc, kw, NetOf("racelist", DateStr(IF sc # "" THEN ScDate(sc) ELSE date), m))} :
                Did("get_racelist", sc, date, kw, m, "none", e)
    /\ UNCHANGED altlicence

GetPoints ==
    /\ CanCall("get_points")
    /\ \E sc \in Sharecodes, kw \in Flags, m \in Modes("points") :
            \E e \in {get_points(store, now, sc, kw, NetOf("points", sc, m))} :
                Did("get_points", sc, NoDate, kw, m, "none", e)
    /\ UNCHANGED <<now, altlicence>>

GetSectionals ==
    /\ CanCall("get_sectionals")
    /\ \E sc \in Sharecodes, kw \in Flags, m \in Modes("sectionals") :
            \E e \in {get_sectionals(store, now, sc, kw, NetOf("sectionals", sc, m))} :
                Did("get_sectionals", sc, NoDate, kw, m, "none", e)
    /\ UNCHANGED <<now, altlicence>>

GetSectionalsHistory ==
    /\ CanCall("get_sectionals_history")
    /\ \E sc \in Sharecodes, kw \in Flags, m \in Modes("sectionals-history") :
            \E e \in {get_sectionals_history(store, now, sc, kw, NetOf("sectionals-history", sc, m))} :
                Did("get_sectionals_history", sc, NoDate, kw, m, "none", e)
    /\ UNCHANGED <<now, altlicence>>

GetSectionalsRaw ==
    /\ CanCall("get_sectionals_raw")
    /\ \E alt \in BOOLEAN, sc \in Sharecodes, kw \in Flags, m \in Modes("sectionals-raw") :
        /\ altlicence' = alt
        /\ \E e \in {get_sectionals_raw(store, now, sc, kw, NetOf("sectionals-raw", sc, m), alt)} :
                Did("get_sectionals_raw", sc, NoDate, kw, m, "none", e)
    /\ UNCHANGED now

GetTrackerPerformance ==
    /\ CanCall("get_tracker_performance")
    /\ \E sc \in Sharecodes, kw \in Flags, m \in Modes("performance") :
            \E e \in {get_tracker_performance(store, now, sc, kw, NetOf("performance", sc, m))} :
                Did("get_tracker_performance", sc, NoDate, kw, m, "none", e)
    /\ UNCHANGED <<now, altlicence>>

\* the race records a caller passes as metadata: none, or the record of the race
MetaInputs(sc) == {None_, RowVal(RaceRow(sc, TRUE)), RowVal(MkRow(sc, "", NHFlat, TRUE, FALSE))}

GetObstacles ==
    /\ CanCall("get_obstacles")
    /\ \E sc \in Sharecodes, f \in Flags, m \in Modes("obstacles") :
            \E md \in MetaInputs(sc), rm \in RaceModes :
                LET kw == Kw(f.new, f.offline, f.no_return, md)
                IN  /\ md # None_ => rm = "v1"
                    /\ \E e \in {get_obstacles(store, now, sc, kw, NetOf("race", sc, rm),
                                                NetOf("obstacles", sc, m))} :
                            Did("get_obstacles", sc, NoDate, kw, m, rm, e)
    /\ UNCHANGED <<now, altlicence>>

GetRoute ==
    /\ CanCall("get_route")
    /\ \E cc \in CourseCodes, kw \in Flags, m \in Modes("route") :
            \E e \in {get_route(store, now, cc, kw, NetOf("route", RouteFname(cc), m))} :
                Did("get_route", cc, NoDate, kw, m, "none", e)
    /\ UNCHANGED <<now, altlicence>>

BulkFlags == Flags

\* one failing key at most: the remote answers, is down, or sends garbage
ScWorlds ==
    {[k \in Sharecodes |-> IF k = bad THEN m ELSE "v1"] :
        bad \in Sharecodes, m \in {"v1", "down", "garbage"}}

DayWorlds == {[k \in KeysOf("racelist") |-> IF k = "D0" THEN m ELSE "v1"] :
                m \in {"v1", "down", "garbage"}}

RouteWorlds == {[k \in KeysOf("route") \cup KeysOf("racelist") |->
                    IF k = "Racecourse-01.kml" THEN m ELSE "v1"] :
                  m \in {"v1", "down", "notavail", "garbage"}}

DidBulk(op, keys, request, kw, world, ret, d) ==
    /\ calls' = calls + 1
    /\ store' = d.store
    /\ last' = [MkBulk(op, keys, request, kw, world, ret, d) EXCEPT !.prev = Brief(last)]
    /\ UNCHANGED <<ctorvars, metavars, poolvars, urlvars, updatervars, recvars, utilvars>>

GetRacelistRange ==
    /\ CanCallBulk("get_racelist_range")
    /\ \E at \in Instants, start_date \in {0, 1}, end_date \in {0, DaySecs}, kw \in Flags,
          world \in DayWorlds :
        \E r \in {get_racelist_range(store, at, start_date, end_date, kw, world)} :
            /\ at >= now
            /\ now' = at
            /\ ~kw.no_return
            /\ DidBulk("get_racelist_range", <<DateStr(start_date), DateStr(end_date)>>, {}, kw,
                       world, r.results[1].data,
                       [tasks |-> [j \in 1..Len(r.tasks) |-> <<"racelist", DateStr(r.tasks[j])>>],
                        range |-> <<start_date, end_date>>] @@ r @@ Data0(r.store))
    /\ UNCHANGED altlicence

DataRequests == {{"sectionals"}, {"points", "obstacles"}, {"sectionals-raw", "performance"}}

\* the sharecodes passed to get_data: a list, or a dict of race records
DataInputs ==
    {[scs |-> <<>>, meta |-> None_],
     [scs |-> <<"01_D0_a", "65_D0_b">>, meta |-> None_],
     [scs |-> <<>>, meta |-> Dict(<<RaceRow("01_D0_a", TRUE), RaceRow("65_D0_b", FALSE)>>)]}

GetData ==
    /\ CanCallBulk("get_data")
    /\ \E inp \in DataInputs, request \in DataRequests, kw \in BulkFlags, world \in ScWorlds,
          alt \in BOOLEAN :
        \E d \in {get_data(store, now, inp.scs, inp.meta, request, None_, kw, world, alt)} :
            /\ "sectionals-raw" \notin request => alt = altlicence
            /\ altlicence' = alt
            /\ DidBulk("get_data",
                       IF inp.meta = None_ THEN inp.scs ELSE SeqOfI(inp.meta.rows),
                       request, kw, world, inp.meta, d)
    /\ UNCHANGED now

GetRoutes ==
    /\ CanCallBulk("get_routes")
    /\ \E course_codes \in {<<>>, <<"1">>, <<"1", "65">>}, kw \in BulkFlags, world \in RouteWorlds :
        \E e \in {get_routes(store, now, course_codes, kw, world)} :
                DidBulk("get_routes", course_codes, {}, kw, world, None_, e)
    /\ UNCHANGED <<now, altlicence>>

Update ==
    /\ CanCallBulk("update")
    /\ \E at \in Instants, request \in {{"sectionals", "points"}, {"obstacles"}, {"performance"}},
          kw \in BulkFlags,
          dm \in {"v1", "down"}, world \in ScWorlds :
        /\ at >= now
        /\ now' = at
        /\ \E w \in {[k \in Sharecodes \cup KeysOf("racelist") |->
                          IF k \in Sharecodes THEN world[k] ELSE dm]} :
            \E e \in {update(store, at, 0, 0, request, None_, kw, w, altlicence)} :
                DidBulk("update", <<"D0", "D0">>, request, kw, w, None_, e)
    /\ UNCHANGED altlicence

Next ==
    \/ GetRacelistRange
    \/ GetData
    \/ GetRoutes
    \/ Update
    \/ GetFixtures
    \/ GetRace
    \/ GetRacelist
    \/ GetPoints
    \/ GetSectionals
    \/ GetSectionalsHistory
    \/ GetSectionalsRaw
    \/ GetTrackerPerformance
    \/ GetObstacles
    \/ GetRoute

Spec == Init /\ [][Next]_vars

\* ------------------------------------ behaviours of the construction
\* The process environment may be changed before a construction (export,
\* os.environ[...] = ...); every construction is one GmaxFeed(...) call.
\* gmax_feed describes the last construction: the licence passed, the licence the
\* environment held before, the paths passed and set, and whether it raised.
FeedIdle ==
    /\ store = EmptyStore
    /\ now = Limit0 + 1
    /\ altlicence = FALSE
    /\ calls = 0
    /\ last = MkLast("init", "", NoDate, Kw(FALSE, FALSE, FALSE, None_),
                     Eff("", None_, FALSE, FALSE, 0, EmptyStore, {}, {}))

LicenceInputs == {None_, Str(""), Str("my_licence")}

PathArgTypes == {"fixtures", "route"}

PathInputs == {[t \in Types |-> IF t \in S THEN Str("/data/" \o t) ELSE None_] :
                 S \in SUBSET PathArgTypes}

InitCtor ==
    /\ FeedIdle
    /\ MetaIdle
    /\ PoolIdle
    /\ UrlIdle
    /\ UpdaterIdle
    /\ RecIdle
    /\ UtilIdle
    /\ environ \in {[v \in EnvNames |-> IF v = "GMAXLICENCE" THEN l ELSE None_] :
                      l \in {None_, Str("env_licence")}}
    /\ dirs = {}
    /\ gmax_feed = NoFeed

Putenv ==
    /\ gmax_feed.built < MaxBuilt
    /\ \E v \in {"GMAXLICENCE", "FIXTURES_PATH"}, x \in {None_, Str("env_value")} :
        /\ environ[v] # x
        /\ environ' = [environ EXCEPT ![v] = x]
    /\ UNCHANGED <<dirs, gmax_feed, feedvars, metavars, poolvars, urlvars, updatervars, recvars, utilvars>>

Construct ==
    /\ gmax_feed.built < MaxBuilt
    /\ \E lic \in LicenceInputs, args \in PathInputs :
        \E r \in {GmaxFeed__init__(environ, dirs, lic, args)} :
            /\ environ' = r.environ
            /\ dirs' = r.dirs
            /\ gmax_feed' = [built |-> gmax_feed.built + 1, licence |-> lic,
                             had |-> licence(environ), args |-> args, paths |-> r.paths,
                             raised |-> r.raised, instance |-> ~r.raised]
    /\ UNCHANGED <<feedvars, metavars, poolvars, urlvars, updatervars, recvars, utilvars>>

NextCtor ==
    \/ Putenv
    \/ Construct

SpecCtor == InitCtor /\ [][NextCtor]_vars

\* ------------------------------------ behaviours of a RaceMetadata object
\* One object, constructed with or without records, on which a client calls
\* import_data, set_filter, apply_filter and clear in any order.
MetaRecord(i, rt, country, course, pub, pt) ==
    [I |-> i, RaceType |-> rt, Country |-> country, Racecourse |-> course, Published |-> pub,
     PostTime |-> pt]

RA == MetaRecord("01_D0_a", Flat, "GB", "Ascot", TRUE, 100)
RA0 == MetaRecord("01_D0_a", Flat, "GB", "Ascot", FALSE, 100)
RB == MetaRecord("65_D0_b", Chase, "US", "Gulfstream", TRUE, 200)
RC == MetaRecord("01_D0_c", Chase, "GB", "Ascot", FALSE, 300)

MetaData == {ListData(<<RA, RB, RC>>), DictData(<<RA0, RB>>), ListData(<<>>)}

PredFields == DOMAIN NoPred

\* the values a caller passes for a predicate field
FieldValues(f) ==
    CASE f = "countries" -> {SomeSet({"GB"}), SomeSet({})}
      [] f = "courses" -> {SomeSet({"Ascot"})}
      [] f = "course_codes" -> {SomeSet({"65"})}
      [] f = "race_types" -> {SomeSet({Chase})}
      [] f = "published" -> {True_, False_}
      [] f = "start_date" -> {SomeDate(200)}
      [] OTHER -> {SomeDate(200)}

\* the predicates that pass one more field than p does
OneMore(p) ==
    UNION {{[p EXCEPT ![f] = v] : v \in FieldValues(f)} :
             f \in {g \in PredFields : p[g] = NoPred[g]}}

\* the predicates passed to apply_filter: no field, one field, or one more
\* field than countries = {GB} or published = True
PredInputs ==
    {NoPred} \cup OneMore(NoPred)
             \cup OneMore([NoPred EXCEPT !.countries = SomeSet({"GB"})])
             \cup OneMore([NoPred EXCEPT !.published = True_])

StoredInputs ==
    {NoPred, [NoPred EXCEPT !.countries = SomeSet({"GB"})],
     [NoPred EXCEPT !.countries = SomeSet({})], [NoPred EXCEPT !.published = True_],
     [NoPred EXCEPT !.published = False_]}

OptsInputs == {Opts({}, True_), Opts({"published"}, True_), Opts({"bogus"}, True_)}

Self == [_data |-> _data, _list |-> _list, _filter |-> _filter]

Becomes(self) ==
    /\ _data' = self._data
    /\ _list' = self._list
    /\ _filter' = self._filter

InitMeta ==
    /\ FeedIdle
    /\ CtorIdle
    /\ PoolIdle
    /\ UrlIdle
    /\ UpdaterIdle
    /\ RecIdle
    /\ UtilIdle
    /\ \E data \in MetaData \cup {NoData} :
        /\ _data = RaceMetadata__init__(data)._data
        /\ _list = RaceMetadata__init__(data)._list
        /\ _filter = RaceMetadata__init__(data)._filter
        /\ meta_op = MetaOp("__init__", NoPred, Opts({}, None_), data, FALSE, {}, NoOp)

ImportData ==
    /\ \E data \in MetaData \cup {NoData, DirData(<<RA, RC>>)} :
        /\ Becomes(import_data(Self, data))
        /\ meta_op' = MetaOp("import_data", NoPred, Opts({}, None_), data, FALSE, DOMAIN _list,
                            meta_op)
    /\ UNCHANGED <<feedvars, ctorvars, poolvars, urlvars, updatervars, recvars, utilvars>>

SetFilter ==
    /\ \E args \in StoredInputs, opts \in OptsInputs :
        \E r \in {set_filter(Self, args, opts)} :
            /\ Becomes(r.self)
            /\ meta_op' = MetaOp("set_filter", args, opts, NoData, r.raised, {}, meta_op)
    /\ UNCHANGED <<feedvars, ctorvars, poolvars, urlvars, updatervars, recvars, utilvars>>

ApplyFilter ==
    /\ \E args \in PredInputs, data \in {NoData, DictData(<<RA0, RB>>)} :
        /\ Becomes(RaceMetadata_apply_filter(Self, args, data))
        /\ meta_op' = MetaOp("apply_filter", args, Opts({}, None_), data, FALSE, DOMAIN _list,
                            meta_op)
    /\ UNCHANGED <<feedvars, ctorvars, poolvars, urlvars, updatervars, recvars, utilvars>>

Clear ==
    /\ Becomes(RaceMetadata_clear(Self))
    /\ meta_op' = MetaOp("clear", NoPred, Opts({}, None_), NoData, FALSE, {}, meta_op)
    /\ UNCHANGED <<feedvars, ctorvars, poolvars, urlvars, updatervars, recvars, utilvars>>

NextMeta ==
    \/ ImportData
    \/ SetFilter
    \/ ApplyFilter
    \/ Clear

SpecMeta == InitMeta /\ [][NextMeta]_vars

\* ------------------------------------ behaviours of apply_thread_pool
\* One call of apply_thread_pool(func, iterable, **kwargs) on the store of
\* Init, with the steps of its worker threads interleaved.  pool describes
\* the call: the worker threads started (nworkers), the tasks submitted and
\* not begun (queue), the tasks a worker is running (eff), the futures of the
\* tasks ended (results, and completed in the order they ended), and what
\* the bulk operation that made the call returned: get_data for the label
\* sectionals, get_racelist_range for racelist and get_routes for route.
Wide == [i \in 1..(MAX_THREADS + 1) |-> IF i % 2 = 1 THEN "01_D0_a" ELSE "65_D0_b"]

PlainKw == Kw(FALSE, FALSE, FALSE, None_)

\* world is what the remote answers for each key, and world2 what it
\* answers for a key that was requested before in the same call
PoolInputs ==
    {[label |-> "sectionals", keys |-> ks, kw |-> kw, world |-> w, world2 |-> w] :
        ks \in {<<>>, <<"01_D0_a">>, <<"01_D0_a", "65_D0_b">>}, kw \in Flags, w \in ScWorlds}
    \cup {[label |-> "sectionals", keys |-> Wide, kw |-> Kw(FALSE, TRUE, FALSE, None_),
           world |-> [k \in Sharecodes |-> "v1"], world2 |-> [k \in Sharecodes |-> "v1"]]}
    \cup {[label |-> "sectionals", keys |-> <<"01_D0_a", "01_D0_a">>, kw |-> kw,
           world |-> [k \in Sharecodes |-> m], world2 |-> [k \in Sharecodes |-> m2]] :
            kw \in {PlainKw, Kw(TRUE, FALSE, FALSE, None_)}, m \in {"v1", "v2"},
            m2 \in {"v1", "v2"}}
    \cup {[label |-> "route", keys |-> ks, kw |-> kw, world |-> w, world2 |-> w] :
            ks \in {<<"1", "65">>, <<"1", "01">>}, kw \in Flags, w \in RouteWorlds}

\* the days of get_racelist_range, which passes new and offline only
PoolDayInputs ==
    {[label |-> "racelist", keys |-> <<0, DaySecs>>, kw |-> kw, world |-> w, world2 |-> w] :
        kw \in {k \in Flags : ~k.no_return}, w \in DayWorlds}

PoolCalled(inp, st) ==
    [phase |-> IF Threads(inp.keys) > 1 THEN "submit" ELSE "inline",
     label |-> inp.label, keys |-> inp.keys, kw |-> inp.kw, world |-> inp.world,
     world2 |-> inp.world2, asked |-> {}, opened |-> {},
     threads |-> Threads(inp.keys), nworkers |-> 0, submitted |-> 0, queue |-> <<>>,
     eff |-> <<>>, results |-> <<>>, completed |-> <<>>, overtook |-> FALSE,
     store0 |-> st, raised |-> FALSE, ret |-> None_]

PoolIdleRest == UNCHANGED <<now, altlicence, calls, last, ctorvars, metavars, urlvars, updatervars, recvars, utilvars>>

\* threads = min([MAX_THREADS, len(iterable)]) and the branch taken
PoolCall ==
    /\ pool.phase = "none"
    /\ \/ \E inp \in PoolInputs : pool' = PoolCalled(inp, store)
       \/ \E inp \in PoolDayInputs : pool' = PoolCalled(inp, store)
    /\ UNCHANGED store
    /\ PoolIdleRest

\* pool.submit(func, x, **kwargs) for the next x: the executor starts a
\* worker thread while it has fewer than threads of them, unless a worker
\* it has is waiting for work
Submit ==
    /\ pool.phase = "submit"
    /\ \E spawn \in BOOLEAN :
         /\ spawn => pool.nworkers < pool.threads
         /\ ~spawn => pool.nworkers > 0
         /\ pool' = [pool EXCEPT !.submitted = @ + 1,
                                 !.queue = Append(@, pool.submitted + 1),
                                 !.nworkers = IF spawn THEN @ + 1 ELSE @,
                                 !.phase = IF pool.submitted + 1 = Len(pool.keys)
                                           THEN "join" ELSE "submit"]
    /\ UNCHANGED store
    /\ PoolIdleRest

\* a worker with no task takes the oldest task submitted and begins func
Take ==
    /\ pool.phase \in {"submit", "join"}
    /\ pool.queue # <<>>
    /\ Cardinality(DOMAIN pool.eff) < pool.nworkers
    /\ \E i \in {Head(pool.queue)} :
         \E e \in {Resolve(pool.label, store, now, pool.keys[i], pool.kw,
                           IF Target(pool.label, pool.keys[i]) \in pool.asked
                           THEN pool.world2 ELSE pool.world, altlicence)} :
            pool' = [pool EXCEPT !.queue = Tail(@),
                                 !.asked = IF e.gets > 0
                                           THEN @ \cup {Target(pool.label, pool.keys[i])} ELSE @,
                                 !.eff = [j \in DOMAIN @ \cup {i} |-> IF j = i THEN e ELSE @[j]]]
    /\ UNCHANGED store
    /\ PoolIdleRest

\* a task that fetched a text reaches open(path, 'w') in dump_file
OpenFile ==
    /\ pool.phase \in {"submit", "join"}
    /\ \E i \in DOMAIN pool.eff \ pool.opened :
         /\ pool.eff[i].writes # {}
         /\ store' = OpenFiles(store, pool.eff[i], now)
         /\ pool' = [pool EXCEPT !.opened = @ \cup {i}]
    /\ PoolIdleRest

\* func ends in a worker: the files it opened are closed with its text in
\* them and its future is set
Finish ==
    /\ pool.phase \in {"submit", "join"}
    /\ \E i \in DOMAIN pool.eff :
         /\ pool.eff[i].writes # {} => i \in pool.opened
         /\ store' = ApplyWrites(store, pool.eff[i])
         /\ pool' = [pool EXCEPT
                !.opened = @ \ {i},
                !.eff = [j \in DOMAIN @ \ {i} |-> @[j]],
                !.results = [j \in DOMAIN @ \cup {i} |->
                                IF j = i THEN Future(pool.eff[i]) ELSE @[j]],
                !.completed = Append(@, Future(pool.eff[i])),
                !.overtook = @ \/ \E j \in 1..(i - 1) : j \notin DOMAIN pool.results]
    /\ PoolIdleRest

\* faulty variant: the with block is left as soon as every task is
\* submitted, as a shutdown that does not wait would leave it
Return_without_join ==
    /\ pool.phase = "join"
    /\ pool' = [pool EXCEPT !.phase = "done"]
    /\ UNCHANGED store
    /\ PoolIdleRest

\* the with block is left when no task is queued or running; then
\* results = [res.result() for res in results]
Return ==
    /\ pool.phase = "join"
    /\ pool.queue = <<>>
    /\ DOMAIN pool.eff = {}
    /\ \E r \in {PoolReturn(pool)} :
         pool' = [pool EXCEPT !.phase = "done", !.raised = r.raised, !.ret = r.ret]
    /\ UNCHANGED store
    /\ PoolIdleRest

\* threads <= 1: results = [func(x, **kwargs) for x in iterable], or []
RunInline ==
    /\ pool.phase = "inline"
    /\ \E r \in {apply_thread_pool(pool.label, pool.keys, pool.kw, pool.world, altlicence,
                                    store, now)} :
         /\ store' = r.store
         /\ pool' = [pool EXCEPT
                !.phase = "done",
                !.results = [i \in 1..Len(r.results) |->
                                [ret |-> r.results[i], raised |-> FALSE, files |-> {}]],
                !.raised = r.raised \/ Merged(pool.label, r.results).raised,
                !.ret = IF r.raised THEN None_ ELSE Merged(pool.label, r.results).ret]
    /\ PoolIdleRest

NextPool ==
    \/ PoolCall
    \/ Submit
    \/ Take
    \/ OpenFile
    \/ Finish
    \/ Return
    \/ RunInline

SpecPool == Init /\ [][NextPool]_vars

\* ---------------------------------------------- behaviours of read_url
\* One call of read_url(url, try_limit), a step for each pass of its loop.
UrlNets ==
    {[fails |-> f, body |-> NetOf("sectionals", "01_D0_a", m).body] :
        f \in 0..(TryLimit + 1), m \in {"v1", "denied", "blank", "notavail", "garbage"}}

UrlIdleRest == UNCHANGED <<feedvars, ctorvars, metavars, poolvars, updatervars, recvars, utilvars>>

ReadUrlCall ==
    /\ url.phase = "none"
    /\ \E has_url \in BOOLEAN, try_limit \in 0..TryLimit, net \in UrlNets :
         url' = read_url_called(has_url, try_limit, net)
    /\ UrlIdleRest

ReadUrlAttempt ==
    /\ url.phase = "loop"
    /\ url.idx < url.try_limit
    /\ url' = read_url_attempt(url)
    /\ UrlIdleRest

\* the loop ends with idx = try_limit: return txt
ReadUrlGiveUp ==
    /\ url.phase = "loop"
    /\ ~(url.idx < url.try_limit)
    /\ url' = [url EXCEPT !.phase = "done"]
    /\ UrlIdleRest

NextUrl ==
    \/ ReadUrlCall
    \/ ReadUrlAttempt
    \/ ReadUrlGiveUp

\* the thread in read_url keeps running: s.get returns or raises within
\* its timeout and time.sleep(1) returns
SpecUrlFair ==
    Init /\ [][NextUrl]_vars /\ WF_vars(ReadUrlAttempt) /\ WF_vars(ReadUrlGiveUp)

\* ------------------------- behaviours of get_data with a filter object
\* The caller keeps one RaceMetadata object (_data, _list, _filter), new
\* at first, and passes it as filter with a dict of race records to one
\* get_data call after the other; it may store a predicate in it in between.
MaxData == 2

ScOrder == <<"01_D0_a", "65_D0_b">>

\* list(filter): the keys of _list
ListOf(self) == SelectSeq(ScOrder, LAMBDA k : k \in DOMAIN self._list)

\* get_data when sharecodes is a dict and filter is a RaceMetadata:
\* filter.apply_filter(data = sharecodes); sharecodes = list(filter)
get_data_with_filter(st, clock, meta, request, self, kw, world, alt) ==
    LET f == RaceMetadata_apply_filter(self, NoPred, DictData(meta.rows))
    IN  [self |-> f,
         d |-> GetDataLoop(1, ListOf(f), request, kw, world, alt, clock, Data0(st))]

DataDicts == {Dict(<<RA>>), Dict(<<RB>>), Dict(<<RA0, RB>>)}

DataWorlds ==
    {[k \in Sharecodes |-> IF k = bad THEN m ELSE "v1"] :
        bad \in Sharecodes, m \in {"v1", "down"}}

GetDataWithFilter ==
    /\ calls < MaxData
    /\ \E meta \in DataDicts, request \in {{"sectionals"}, {"sectionals", "points"}},
          kw \in {Kw(FALSE, FALSE, FALSE, None_), Kw(FALSE, FALSE, TRUE, None_)},
          world \in DataWorlds :
        \E r \in {get_data_with_filter(store, now, meta, request, Self, kw, world, altlicence)} :
            /\ calls' = calls + 1
            /\ store' = r.d.store
            /\ last' = [MkBulk("get_data", SeqOfI(meta.rows), request, kw, world, meta, r.d)
                        EXCEPT !.prev = Brief(last)]
            /\ Becomes(r.self)
    /\ UNCHANGED <<now, altlicence, ctorvars, meta_op, poolvars, urlvars, updatervars, recvars, utilvars>>

\* filter.set_filter(published = True) between two calls
FilterSetPublished ==
    /\ calls < MaxData
    /\ _filter = NoPred
    /\ Becomes(set_filter(Self, [NoPred EXCEPT !.published = True_], Opts({}, None_)).self)
    /\ UNCHANGED <<feedvars, ctorvars, meta_op, poolvars, urlvars, updatervars, recvars, utilvars>>

NextData ==
    \/ GetDataWithFilter
    \/ FilterSetPublished

SpecData == Init /\ [][NextData]_vars

\* --------------------------------- behaviours of the background updater
\* BackgroundGmaxUpdater() schedules _updater every 2 hours and starts the
\* driver thread; updater.wait counts the sleeps of the driver until the
\* job is due, thr is where the driver thread is, jobs whether the job is
\* in the scheduler, term how far a terminate() call has come.  A cycle is
\* GMAX_FEED.update over the days of the model for sectionals and points.
PollSecs == 30
IntervalHours == 2
Interval == (IntervalHours * 3600) \div PollSecs

\* what the feeds answer during a cycle
UpdaterWorlds ==
    {[k \in Sharecodes \cup KeysOf("racelist") |->
         IF k \in Sharecodes THEN (IF k = "01_D0_a" THEN m ELSE "v1") ELSE dm] :
        m \in {"v1", "garbage"}, dm \in {"v1", "down"}}

UpdaterIdleRest ==
    UNCHANGED <<now, altlicence, calls, last, ctorvars, metavars, poolvars, urlvars, recvars,
                utilvars>>

\* __init__: active, the job due in 2 hours, the driver thread started
UpdaterInit ==
    /\ updater.phase = "none"
    /\ updater' = [phase |-> "made", active |-> TRUE, jobs |-> TRUE, wait |-> Interval,
                   thr |-> "test", term |-> "no", failed |-> FALSE]
    /\ UNCHANGED store
    /\ UpdaterIdleRest

\* driver: while self.active
DriverTest ==
    /\ updater.phase = "made" /\ updater.thr = "test"
    /\ updater' = [updater EXCEPT !.thr = IF updater.active THEN "pending" ELSE "exited"]
    /\ UNCHANGED store
    /\ UpdaterIdleRest

\* driver: self.run_pending() finds the job due and calls _updater, or
\* finds nothing to run
DriverRunPending ==
    /\ updater.phase = "made" /\ updater.thr = "pending"
    /\ updater' = [updater EXCEPT
            !.thr = IF updater.jobs /\ updater.wait = 0 THEN "cycle" ELSE "sleep"]
    /\ UNCHANGED store
    /\ UpdaterIdleRest

\* _updater: GMAX_FEED.update returns, the job is due again in 2 hours and
\* run_pending returns
CycleReturns ==
    /\ updater.phase = "made" /\ updater.thr = "cycle"
    /\ \E world \in UpdaterWorlds :
         \E e \in {update(store, now, 0, DaySecs, {"sectionals", "points"}, None_,
                          Kw(FALSE, FALSE, FALSE, None_), world, altlicence)} :
            /\ ~e.raised
            /\ store' = e.store
    /\ updater' = [updater EXCEPT !.thr = "sleep", !.wait = Interval]
    /\ UpdaterIdleRest

\* _updater: GMAX_FEED.update raises; nothing between it and the top of
\* the driver thread catches the exception
CycleRaises ==
    /\ updater.phase = "made" /\ updater.thr = "cycle"
    /\ \E world \in UpdaterWorlds :
         \E e \in {update(store, now, 0, DaySecs, {"sectionals", "points"}, None_,
                          Kw(FALSE, FALSE, FALSE, None_), world, altlicence)} :
            /\ e.raised
            /\ store' = e.store
    /\ updater' = [updater EXCEPT !.thr = "dead", !.failed = TRUE]
    /\ UpdaterIdleRest

\* driver: systime.sleep(30)
DriverSleep ==
    /\ updater.phase = "made" /\ updater.thr = "sleep"
    /\ updater' = [updater EXCEPT !.thr = "test",
                                  !.wait = IF @ > 0 THEN @ - 1 ELSE 0]
    /\ UNCHANGED store
    /\ UpdaterIdleRest

\* terminate: self.active = False
TerminateBegins ==
    /\ updater.phase = "made" /\ updater.term = "no"
    /\ updater' = [updater EXCEPT !.active = FALSE, !.term = "clearing"]
    /\ UNCHANGED store
    /\ UpdaterIdleRest

\* terminate: self.clear()
TerminateClears ==
    /\ updater.phase = "made" /\ updater.term = "clearing"
    /\ updater' = [updater EXCEPT !.jobs = FALSE, !.term = "done"]
    /\ UNCHANGED store
    /\ UpdaterIdleRest

DriverStep ==
    \/ DriverTest
    \/ DriverRunPending
    \/ CycleReturns
    \/ CycleRaises
    \/ DriverSleep

NextUpdater ==
    \/ UpdaterInit
    \/ DriverStep
    \/ TerminateBegins
    \/ TerminateClears

\* the driver thread keeps running while it lives: the sleep ends, and
\* update returns or raises; a terminate() that began goes on to clear()
SpecUpdaterFair ==
    Init /\ [][NextUpdater]_vars /\ WF_vars(DriverStep) /\ WF_vars(TerminateClears)

\* ------------------------------------- behaviours of the live recorder
\* record_live.py run as main: the listener loop of the main process, the
\* thread of UserTerminate and the file_management process.  A datagram
\* is [kind, sc, n]: valid is an ASCII JSON record with I = sc, nonascii
\* does not decode, notjson decodes and is not JSON, noI is JSON without
\* the field I, terminate is b'terminate activated'; n numbers the
\* datagrams in the order of arrival.  rec.sock holds the datagrams the
\* socket has and the listener has not read, rec.got the ones it read,
\* rec.q the queue, rec.files the lines appended to the file of each
\* sharecode, rec.logged the datagrams given to logger.exception.
MaxDatagrams == 3

RecScs == {"a", "b"}

Terminate == [kind |-> "terminate", sc |-> "", n |-> 0]

Datagrams(n) ==
    {[kind |-> "valid", sc |-> sc, n |-> n] : sc \in RecScs}
    \cup {[kind |-> k, sc |-> "", n |-> n] : k \in {"nonascii", "notjson", "noI"}}

RecIdleRest ==
    UNCHANGED <<feedvars, ctorvars, metavars, poolvars, urlvars, updatervars, utilvars>>

\* __main__: the queue, the process, the socket bound, the thread started
RecStart ==
    /\ rec.phase = "none"
    /\ rec' = [phase |-> "run", term |-> FALSE, user |-> "input", open |-> TRUE, sock |-> <<>>,
               arrived |-> 0, lst |-> "recv", cur |-> Terminate, got |-> <<>>, q |-> <<>>,
               fm |-> "get", files |-> [sc \in RecScs |-> <<>>], logged |-> <<>>]
    /\ RecIdleRest

\* a datagram of the feed reaches port 4629
DatagramArrives ==
    /\ rec.phase = "run" /\ rec.open
    /\ rec.arrived < MaxDatagrams
    /\ \E d \in Datagrams(rec.arrived + 1) :
         rec' = [rec EXCEPT !.sock = Append(@, d), !.arrived = @ + 1]
    /\ RecIdleRest

\* userTerminate: input() returns 't' and self.term = True
UserEntersT ==
    /\ rec.phase = "run" /\ rec.user = "input"
    /\ rec' = [rec EXCEPT !.term = TRUE, !.user = "send"]
    /\ RecIdleRest

\* userTerminate: sendto(b'terminate activated', ('127.0.0.1', 4629)); the
\* datagram is dropped when the listener has closed its socket
UserSends ==
    /\ rec.phase = "run" /\ rec.user = "send"
    /\ rec' = [rec EXCEPT !.user = "done",
                          !.sock = IF rec.open THEN Append(@, Terminate) ELSE @]
    /\ RecIdleRest

\* listener: data, addr = s.recvfrom(4096)
ListenerRecv ==
    /\ rec.phase = "run" /\ rec.lst = "recv"
    /\ rec.sock # <<>>
    /\ rec' = [rec EXCEPT !.cur = Head(rec.sock), !.sock = Tail(@),
                          !.got = Append(@, Head(rec.sock)), !.lst = "put"]
    /\ RecIdleRest

\* listener: q.put((data, addr))
ListenerPut ==
    /\ rec.phase = "run" /\ rec.lst = "put"
    /\ rec' = [rec EXCEPT !.q = Append(@, rec.cur), !.lst = "test"]
    /\ RecIdleRest

\* listener: if ut.term: break, which leaves the with block of the socket
ListenerTest ==
    /\ rec.phase = "run" /\ rec.lst = "test"
    /\ rec' = [rec EXCEPT !.lst = IF rec.term THEN "done" ELSE "recv",
                          !.open = ~rec.term]
    /\ RecIdleRest

\* faulty variant: a record without I is logged and skipped
file_management_skipping(r, d) ==
    CASE d.kind = "terminate" -> [r EXCEPT !.fm = "done"]
      [] d.kind = "valid" -> [r EXCEPT !.files[d.sc] = Append(@, d.n)]
      [] OTHER -> [r EXCEPT !.logged = Append(@, d.n)]

\* one turn of the loop of file_management on the datagram d it got:
\* break on the terminate datagram; log and continue when decode raises;
\* deal_with_datagram logs and returns when json.loads raises, and
\* data2['I'] of a record without I raises out of the process
file_management(r, d) ==
    CASE d.kind = "terminate" -> [r EXCEPT !.fm = "done"]
      [] d.kind = "nonascii" -> [r EXCEPT !.logged = Append(@, d.n)]
      [] d.kind = "notjson" -> [r EXCEPT !.logged = Append(@, d.n)]
      [] d.kind = "noI" -> [r EXCEPT !.fm = "dead"]
      [] OTHER -> [r EXCEPT !.files[d.sc] = Append(@, d.n)]

\* file_management: d = q.get() and the turn of the loop on d
FmHandle ==
    /\ rec.phase = "run" /\ rec.fm = "get"
    /\ rec.q # <<>>
    /\ rec' = file_management([rec EXCEPT !.q = Tail(@)], Head(rec.q))
    /\ RecIdleRest

ListenerStep ==
    \/ ListenerRecv
    \/ ListenerPut
    \/ ListenerTest

NextRec ==
    \/ RecStart
    \/ DatagramArrives
    \/ UserEntersT
    \/ UserSends
    \/ ListenerStep
    \/ FmHandle

\* the threads and the process keep running: the listener goes on when a
\* datagram is there, file_management when the queue holds one, and the
\* thread of UserTerminate sends once 't' was entered
SpecRecFair ==
    Init /\ [][NextRec]_vars /\ WF_vars(ListenerStep) /\ WF_vars(FmHandle)
         /\ WF_vars(UserSends)

\* ------------------------------------------ functions of the live feed
\* get_start_finish_timestamps and get_finish_order, each applied once to an
\* input drawn at the start.  A progress packet is [R, P, T]: R the running
\* time in seconds, P the distance to go, T the text of its timestamp, held
\* as <<minutes, seconds>>.  A sectional record is [I, G, R]: runner, gate
\* and the time of the runner at the gate.  A datetime is SomeDate(seconds),
\* and NoneDate is None.
MaxPackets == 3
MaxTime == 3

\* datetime.strptime(row["T"], "%Y-%m-%dT%H:%M:%S.%fZ"), in seconds
strptime(T) == T[1] * 60 + T[2]

\* faulty variant: a packet with R = 0 does not reset the start
scan_packet_no_reset(acc, row) ==
    LET start_time == IF row.R > 0 /\ ~acc.start_time.some
                      THEN SomeDate(strptime(row.T) - row.R)
                      ELSE acc.start_time
    IN  [start_time |-> start_time,
         finish_time |-> IF start_time.some /\ row.P = 0 /\ row.R # 0
                         THEN SomeDate(start_time.val + row.R) ELSE acc.finish_time]

\* the body of the loop of get_start_finish_timestamps
scan_packet(acc, row) ==
    LET start_time == IF row.R > 0 /\ ~acc.start_time.some
                      THEN SomeDate(strptime(row.T) - row.R)
                      ELSE IF acc.start_time.some /\ row.R = 0 THEN NoneDate
                      ELSE acc.start_time
    IN  [start_time |-> start_time,
         finish_time |-> IF start_time.some /\ row.P = 0 /\ row.R # 0
                         THEN SomeDate(start_time.val + row.R) ELSE acc.finish_time]

RECURSIVE ScanPackets(_, _)
ScanPackets(acc, packets) ==
    IF packets = <<>> THEN acc ELSE ScanPackets(scan_packet(acc, Head(packets)), Tail(packets))

get_start_finish_timestamps(packets) ==
    ScanPackets([start_time |-> NoneDate, finish_time |-> NoneDate], packets)

\* sorted(sects, key = lambda x: x["R"]): stable, so a record goes behind
\* the records of the same time that came before it
RECURSIVE InsertByR(_, _)
InsertByR(sorted, row) ==
    IF sorted = <<>> THEN <<row>>
    ELSE IF row.R < Head(sorted).R THEN <<row>> \o sorted
    ELSE <<Head(sorted)>> \o InsertByR(Tail(sorted), row)

RECURSIVE SortedByR(_, _)
SortedByR(acc, rows) ==
    IF rows = <<>> THEN acc ELSE SortedByR(InsertByR(acc, Head(rows)), Tail(rows))

\* faulty variant: every record takes the place of its rank in the order
finish_row_no_dead_heat(acc, row) ==
    [t |-> row.R, pos |-> acc.counter + 1, counter |-> acc.counter + 1,
     runners |-> [i \in DOMAIN acc.runners \cup {row.I} |->
                    IF i = row.I THEN [position |-> acc.counter + 1, finish_time |-> row.R]
                    ELSE acc.runners[i]]]

\* the body of the loop of get_finish_order
finish_row(acc, row) ==
    LET counter == acc.counter + 1
        pos == IF acc.t < row.R THEN counter ELSE acc.pos
        t == IF acc.t < row.R THEN row.R ELSE acc.t
    IN  [t |-> t, pos |-> pos, counter |-> counter,
         runners |-> [i \in DOMAIN acc.runners \cup {row.I} |->
                        IF i = row.I THEN [position |-> pos, finish_time |-> row.R]
                        ELSE acc.runners[i]]]

RECURSIVE FinishRows(_, _)
FinishRows(acc, rows) ==
    IF rows = <<>> THEN acc ELSE FinishRows(finish_row(acc, Head(rows)), Tail(rows))

\* runners is the dict returned, a function of the runners it holds
get_finish_order(sectionals) ==
    IF sectionals = <<>> THEN <<>>
    ELSE LET sects == SelectSeq(sectionals, LAMBDA row : row.G = "Finish")
         IN  FinishRows([t |-> 0, pos |-> 1, counter |-> 0, runners |-> <<>>],
                        SortedByR(<<>>, sects)).runners

\* the packets of the progress feed: R is never negative
Packets ==
    {[R |-> r, P |-> pp, T |-> tt] : r \in 0..2, pp \in {0, 400}, tt \in {<<0, 30>>, <<1, 5>>}}

PacketLists == UNION {[1..n -> Packets] : n \in 0..MaxPackets}

Runners == <<"r1", "r2", "r3", "r4">>

\* the records of a race in the sectionals feed: for each runner at most
\* one record of the gate Finish, with a time of 1..MaxTime or none (0),
\* and before it a record of the gate 1f when early[i]; the runners come in
\* the order of Runners or in the reverse order
RECURSIVE RaceRecords(_, _, _)
RaceRecords(i, fin, early) ==
    IF i > Len(Runners) THEN <<>>
    ELSE (IF early[i] THEN <<[I |-> Runners[i], G |-> "1f", R |-> 1]>> ELSE <<>>)
         \o (IF fin[i] > 0 THEN <<[I |-> Runners[i], G |-> "Finish", R |-> fin[i]]>> ELSE <<>>)
         \o RaceRecords(i + 1, fin, early)

Reversed(seq) == [i \in 1..Len(seq) |-> seq[Len(seq) + 1 - i]]

SectionalLists ==
    UNION {{RaceRecords(1, fin, early), Reversed(RaceRecords(1, fin, early))} :
              fin \in [1..Len(Runners) -> 0..MaxTime],
              early \in {[i \in 1..Len(Runners) |-> i = 2], [i \in 1..Len(Runners) |-> FALSE]}}

InitUtil ==
    /\ FeedIdle
    /\ CtorIdle
    /\ MetaIdle
    /\ PoolIdle
    /\ UrlIdle
    /\ UpdaterIdle
    /\ RecIdle
    /\ \/ \E ps \in PacketLists : util = [op |-> "packets", input |-> ps, out |-> <<>>]
       \/ \E ss \in SectionalLists : util = [op |-> "sectionals", input |-> ss, out |-> <<>>]

UtilIdleRest ==
    UNCHANGED <<feedvars, ctorvars, metavars, poolvars, urlvars, updatervars, recvars>>

GetStartFinishTimestamps ==
    /\ util.op = "packets"
    /\ util' = [util EXCEPT !.op = "get_start_finish_timestamps",
                            !.out = get_start_finish_timestamps(util.input)]
    /\ UtilIdleRest

GetFinishOrder ==
    /\ util.op = "sectionals"
    /\ util' = [util EXCEPT !.op = "get_finish_order", !.out = get_finish_order(util.input)]
    /\ UtilIdleRest

NextUtil ==
    \/ GetStartFinishTimestamps
    \/ GetFinishOrder

SpecUtil == InitUtil /\ [][NextUtil]_vars

\* ------------------------------------------------------------ properties
\* After a call, last describes it: its arguments, the cache file it met
\* (found), the answer of the remote when a request was issued (mode) and
\* what the call did.
DayKeyedOps == {"get_racelist", "get_race", "get_fixtures"}

KeyedOps == {"get_points", "get_sectionals", "get_sectionals_history", "get_sectionals_raw",
             "get_tracker_performance", "get_obstacles", "get_route"}

ResolverOps == DayKeyedOps \cup KeyedOps

BulkOps == {"get_racelist_range", "get_data", "get_routes", "update"}

\* the reference date of the staleness rule of a day-keyed call
RefDate(l) ==
    IF l.op = "get_racelist" THEN StrDate(EntryOf(l.op, l.key, l.date)[2])
    ELSE IF l.date = NoDate THEN ScDate(l.key) ELSE l.date

\* the call returned without an exception and its payload is empty
EmptyOutcome(l) == ~l.raised /\ ~Truthy(l.ret.data)

\* the directory a label of get_data or get_routes is kept in
EntryOfItem(item) == <<item[1], IF item[1] = "route" THEN RouteFname(item[2]) ELSE item[2]>>

\* C1: get_racelist, get_race and get_fixtures serve the cached copy without
\* a network call if and only if new is false, the file exists and (offline
\* is true or the file's mtime is later than the reference date + 6 days);
\* with new true the cached copy is never served, also when offline is true.
C1_ServedIffTrusted ==
    last.op \in DayKeyedOps =>
        ((last.served /\ last.gets = 0)
            <=> (/\ ~last.new
                 /\ last.found.exists
                 /\ (last.offline \/ last.found.mtime > RefDate(last) + StaleDays * DaySecs)))

\* C2: a call with offline = true issues no network request, whatever the
\* store holds; a resolver that finds no cache file for its key returns an
\* empty outcome, and a bulk operation returns entries only for keys that have
\* a cache file (none at all, and no exception, when no key has one).
C2_OfflineNoRequests ==
    [][(calls' = calls + 1 /\ last'.offline) =>
        /\ last'.gets = 0
        /\ (last'.op \in ResolverOps /\ ~last'.found.exists) => EmptyOutcome(last')
        /\ last'.op \in BulkOps =>
            /\ \A item \in last'.items : store[EntryOfItem(item)[1]][EntryOfItem(item)[2]].exists
            /\ (last'.op = "get_racelist_range" /\ Truthy(last'.ret.data)) =>
                 \E k \in KeysOf("racelist") : store["racelist"][k].exists
            /\ store = EmptyStore =>
                 /\ ~last'.raised
                 /\ last'.items = {}
                 /\ last'.op = "get_racelist_range" => ~Truthy(last'.ret.data)]_vars

\* an offline resolver call that met no cache file, and an offline bulk call
C2_Witness ==
    /\ last.offline
    /\ last.op = "get_obstacles"
    /\ Truthy(last.race)
    /\ ~last.found.exists
    /\ last.gets = 0

\* C3: when the fetch fails (read_url gives no text after its tries, or the
\* body is "Permission Denied") the resolver returns an empty outcome, writes
\* nothing and leaves the cache file of the key as it was.
C3_FetchFailure ==
    (last.op \in ResolverOps /\ (last.mode \in {"down", "denied", "blank"} \/ last.racemode = "down")) =>
        /\ EmptyOutcome(last)
        /\ last.writes = {}
        /\ store[EntryOf(last.op, last.key, last.date)[1]][EntryOf(last.op, last.key, last.date)[2]]
               = last.found
        /\ last.mode = "down" => last.gets - last.race_gets = TryLimit

\* a forced refetch that failed while a cache file existed
C3_Witness ==
    /\ last.op = "get_sectionals"
    /\ last.mode = "denied"
    /\ last.found.exists
    /\ last.new

\* the bulk call dispatched on two keys at least
ManyKeys(l) ==
    CASE l.op = "get_racelist_range" -> l.keys[1] # l.keys[2]
      [] l.op = "get_data" -> l.ret.data = None_ /\ Len(l.keys) > 1
      [] OTHER -> Len(l.keys) > 1

\* C4: a bulk operation over keys of which one fails, also by raising,
\* lets no exception reach the caller and returns the entries of the other
\* keys; the failing key adds no entry.
C4_BulkSurvivesFailure ==
    (last.op \in {"get_data", "get_racelist_range", "get_routes"} /\ ManyKeys(last)) =>
        /\ ~last.raised
        /\ (last.op = "get_data" /\ ~last.offline /\ ~last.no_return) =>
              \A i \in 1..Len(last.keys), label \in last.request \cap {"sectionals", "points"} :
                  LET has == \E item \in last.items : item[1] = label /\ item[2] = last.keys[i]
                  IN  /\ last.world[last.keys[i]] = "v1" => has
                      /\ (last.world[last.keys[i]] # "v1" /\ last.new) => ~has
        /\ (last.op = "get_routes" /\ ~last.offline /\ ~last.no_return) =>
              \A i \in 1..Len(last.keys) :
                  LET has == \E item \in last.items : item[2] = last.keys[i]
                  IN  /\ last.world[RouteFname(last.keys[i])] = "v1" => has
                      /\ (last.world[RouteFname(last.keys[i])] # "v1" /\ last.new) => ~has

SentinelModes == {"notavail", "denied", "emptyobj"}

\* C9: a route fetch answered with a "not available" sentinel writes nothing
\* and returns an empty outcome; the next get_route for the course finds no
\* cache file again and returns an empty outcome if the answer is a sentinel.
C9_SentinelRouteNotCached ==
    (last.op = "get_route" /\ last.mode \in SentinelModes) =>
        /\ EmptyOutcome(last)
        /\ last.writes = {}
        /\ store["route"][RouteFname(last.key)] = last.found
        /\ (/\ last.prev.op = "get_route"
            /\ RouteFname(last.prev.key) = RouteFname(last.key)
            /\ last.prev.mode \in SentinelModes
            /\ ~last.prev.had) => ~last.found.exists /\ ~last.served

\* the second of two get_route calls for a course, both answered by a sentinel
C9_Witness ==
    /\ last.op = "get_route"
    /\ last.mode = "notavail"
    /\ last.prev.op = "get_route"
    /\ last.prev.key = last.key
    /\ last.prev.mode = "emptyobj"
    /\ ~last.prev.had
    /\ ~store["route"][RouteFname(last.key)].exists

\* C10: a non-empty answer that cannot be decoded for its feed makes the
\* resolver return an empty outcome: no exception reaches the caller and
\* nothing is written.
C10_MalformedIsEmpty ==
    (/\ last.op \in ResolverOps \ {"get_route"}
     /\ (last.mode \in {"garbage", "notavail"} \/ last.racemode = "garbage")) =>
        EmptyOutcome(last) /\ last.writes = {}

\* the same resolver called with the same arguments
SameCall(a, b) ==
    /\ a.op = b.op /\ a.key = b.key /\ a.date = b.date /\ a.metadata = b.metadata
    /\ a.new = b.new /\ a.offline = b.offline /\ a.no_return = b.no_return

\* the staleness policy as documented: a day-keyed file is trusted when the
\* call is offline or the file is later than the reference date + 6 days,
\* any other file whenever it exists
DocTrusted(l) ==
    /\ ~l.new
    /\ l.found.exists
    /\ l.op \in DayKeyedOps => (l.offline \/ l.found.mtime > RefDate(l) + StaleDays * DaySecs)

FoundRX(l) == \E i \in 1..Len(l.found.text.rows) : l.found.text.rows[i].RX

\* the race record get_obstacles decided on is of a jump race
JumpRace(l) == Truthy(l.race) /\ l.race.rows[1].RaceType \in {Chase, NHFlat}

C8_GateNoAccess ==
    (last.op = "get_obstacles" /\ Truthy(last.race)) =>
        /\ last.race.rows[1].RaceType = Flat =>
              /\ EmptyOutcome(last)
              /\ last.reads = {} /\ last.writes = {}
              /\ last.gets = 0
        /\ last.race.rows[1].RaceType = Chase =>
              /\ ~last.new => <<"obstacles", last.key>> \in last.reads
              /\ (~last.new /\ last.found.exists) => last.served
              /\ ((last.new \/ ~last.found.exists) /\ ~last.offline) => last.mode # "none"

\* C8 as the code has it: for such a race get_obstacles returns an empty
\* outcome without reading or writing the obstacles store and without a jumps
\* request; with the race record passed it touches no store and issues no
\* request at all, and when it looks the record up itself the lookup reads
\* the racelist file of the race's date and may issue the single-race
\* request of get_race.  For "Chase" (and "NH Flat") it takes the normal
\* cache-then-fetch path.
C8_GateNoObstaclesAccess ==
    (last.op = "get_obstacles" /\ Truthy(last.race)) =>
        /\ last.race.rows[1].RaceType = Flat =>
              /\ EmptyOutcome(last)
              /\ last.writes = {}
              /\ <<"obstacles", last.key>> \notin last.reads
              /\ last.mode = "none"
              /\ last.gets = last.race_gets
              /\ Truthy(last.metadata) => (last.reads = {} /\ last.gets = 0)
              /\ ~Truthy(last.metadata) => last.reads = {<<"racelist", DateStr(ScDate(last.key))>>}
        /\ last.race.rows[1].RaceType \in {Chase, NHFlat} =>
              /\ ~last.new => <<"obstacles", last.key>> \in last.reads
              /\ (~last.new /\ last.found.exists) => last.served
              /\ ((last.new \/ ~last.found.exists) /\ ~last.offline) => last.mode # "none"
              /\ ((last.new \/ ~last.found.exists) /\ last.offline) =>
                    EmptyOutcome(last) /\ last.gets = 0

\* a get_obstacles that looked up the record of a flat race with a request
C8_Witness ==
    /\ last.op = "get_obstacles"
    /\ ~Truthy(last.metadata)
    /\ Truthy(last.race)
    /\ last.race.rows[1].RaceType = Flat
    /\ last.race_gets > 0
    /\ last.found.exists

\* C18: a construction of GmaxFeed with no licence passed and no GMAXLICENCE
\* in the environment raises, and the caller gets no instance.
C18_NoLicenceRaises ==
    (gmax_feed.built > 0 /\ gmax_feed.licence = None_ /\ gmax_feed.had = None_)
        => (gmax_feed.raised /\ ~gmax_feed.instance)

\* a construction without any licence that followed one with a licence in
\* the environment
C18_Witness ==
    /\ gmax_feed.built = 2
    /\ gmax_feed.licence = None_
    /\ gmax_feed.had = None_
    /\ gmax_feed.raised
    /\ gmax_feed.args["route"] # None_
    /\ Str("/data/route") \in dirs
\* --------------------------------------------- properties of RaceMetadata
\* C14: at all times every key of the view _list is a key of the full set
\* _data with the same record, and the view an apply_filter leaves is the one
\* the same call leaves on an object whose view is the full set: it does not
\* depend on the view a previous apply_filter left.
C14_ViewFromFullSet ==
    /\ \A k \in DOMAIN _list : k \in DOMAIN _data /\ _list[k] = _data[k]
    /\ meta_op.op = "apply_filter"
         => _list = RaceMetadata_apply_filter([_data |-> _data, _list |-> _data,
                                               _filter |-> _filter],
                                              meta_op.args, NoData)._list

\* an apply_filter on a narrowed view that brings back a record the previous
\* view had dropped, and drops another
C14_Witness ==
    /\ meta_op.op = "apply_filter"
    /\ meta_op.view0 # {}
    /\ meta_op.view0 # DOMAIN _data
    /\ \E k \in DOMAIN _list : k \notin meta_op.view0
    /\ \E k \in meta_op.view0 : k \notin DOMAIN _list

\* the predicate a call supplies: each argument that is not None, else the
\* field stored by set_filter
Supplied(args, stored) == [f \in PredFields |-> IF args[f] # NoPred[f] THEN args[f] ELSE stored[f]]

Satisfies(sc, row, p) ==
    /\ p.race_types.some => row.RaceType \in p.race_types.val
    /\ p.countries.some => row.Country \in p.countries.val
    /\ p.courses.some => row.Racecourse \in p.courses.val
    /\ p.course_codes.some => ScCourse(sc) \in p.course_codes.val
    /\ p.published = True_ => row.Published
    /\ p.published = False_ => ~row.Published
    /\ p.start_date.some => p.start_date.val <= row.PostTime
    /\ p.end_date.some => row.PostTime <= p.end_date.val

\* C15: after apply_filter a record of the full set is in the view if and
\* only if it satisfies every supplied predicate field, for published = True
\* and for published = False alike.
C15_ViewIffPredicate ==
    meta_op.op = "apply_filter"
        => \A k \in DOMAIN _data :
               k \in DOMAIN _list <=> Satisfies(k, _data[k], Supplied(meta_op.args, _filter))

C17_UnknownOptRaises ==
    meta_op.op = "set_filter"
        => /\ (\E k \in DOMAIN meta_op.opts : k \notin PredFields) => meta_op.raised
           /\ \A k \in DOMAIN meta_op.opts \cap PredFields : _filter[k] = meta_op.opts[k]
\* ------------------------------------------ properties of the bulk calls
\* the calendar days from the day of s to the day of e, as racelist tasks
DaysThrough(s, e) ==
    [i \in 1..((e \div DaySecs) - (s \div DaySecs) + 1) |->
        <<"racelist", DateStr(((s \div DaySecs) + i - 1) * DaySecs)>>]

\* C19: get_racelist_range resolves one racelist per calendar day from the
\* day of start_date through the day of end_date, whatever the times of
\* day, and the single day of start_date when end_date < start_date.
C19_RangeDaysInclusive ==
    last.op = "get_racelist_range"
        => last.tasks = IF last.range[2] < last.range[1]
                        THEN <<<<"racelist", DateStr(last.range[1])>>>>
                        ELSE DaysThrough(last.range[1], last.range[2])

UnpublishedTypes == {"sectionals-raw", "sectionals-history", "points", "obstacles"}

\* the keys of the tasks of a label, in the order of dispatch
TasksOf(l, label) ==
    LET ts == SelectSeq(l.tasks, LAMBDA t : t[1] = label)
    IN  [j \in 1..Len(ts) |-> ts[j][2]]

PublishedKeys(rows) == SeqOfI(SelectSeq(rows, LAMBDA row : row.Published))

\* C20: get_data without a filter dispatches, for every label requested, the
\* keys of the published records of a metadata mapping when the request
\* holds none of sectionals-raw, sectionals-history, points, obstacles, every
\* key of the mapping otherwise, and a bare list as it is; an empty list
\* gives an empty result and no dispatch.
C20_DefaultPublishedOnly ==
    (last.op = "get_data" /\ ~last.raised)
        => /\ \A j \in 1..Len(last.tasks) : last.tasks[j][1] \in last.request
           /\ \A label \in last.request \cap {labels2func[i] : i \in 1..Len(labels2func)} :
                 TasksOf(last, label) =
                     IF last.ret.data = None_ THEN last.keys
                     ELSE IF last.request \cap UnpublishedTypes = {}
                     THEN PublishedKeys(last.ret.data.rows)
                     ELSE SeqOfI(last.ret.data.rows)
           /\ (last.ret.data = None_ /\ last.keys = <<>>)
                 => (last.tasks = <<>> /\ last.items = {} /\ last.labels = {} /\ last.gets = 0)

\* a mapping with a published and an unpublished record, asked for
\* sectionals: only the published key is dispatched
C20_Witness ==
    /\ last.op = "get_data"
    /\ ~last.raised
    /\ last.ret.data # None_
    /\ last.request = {"sectionals"}
    /\ last.keys = <<"01_D0_a", "65_D0_b">>
    /\ last.tasks = <<<<"sectionals", "01_D0_a">>>>
    /\ last.gets > 0

\* C11: during a call of apply_thread_pool the tasks running at once are
\* never more than MAX_THREADS (6) nor more than the elements of the
\* iterable, and neither are the worker threads; with at most one element
\* no worker thread is started and the task, if any, has run in the
\* caller's thread when the call ends.
Running == Cardinality(DOMAIN pool.eff)

C11_ConcurrencyCapped ==
    pool.phase # "none"
        => /\ Running <= MAX_THREADS /\ Running <= Len(pool.keys)
           /\ pool.nworkers <= MAX_THREADS /\ pool.nworkers <= Len(pool.keys)
           /\ Len(pool.keys) <= 1
                => /\ pool.nworkers = 0 /\ Running = 0 /\ pool.queue = <<>>
                   /\ pool.phase \in {"inline", "done"}
                   /\ pool.phase = "done" /\ ~pool.raised
                        => Len(pool.results) = Len(pool.keys)

\* six tasks of seven run at once and the seventh waits for a worker
C11_Witness ==
    /\ pool.phase = "join" /\ Len(pool.keys) > MAX_THREADS
    /\ Running = MAX_THREADS /\ pool.queue # <<>>

\* C13: the mapping get_racelist_range and get_data return is the merge, in
\* the order of the input, of the outcomes of the keys, whatever the order
\* in which the workers ended: it is the one the outcomes give when they
\* are read by position.
OutcomeOf(i) == pool.results[i].ret

C13_MergeIgnoresCompletionOrder ==
    (pool.phase = "done" /\ pool.threads > 1 /\ ~pool.raised
     /\ pool.label \in {"racelist", "sectionals"})
        => pool.ret = Merged(pool.label, [i \in 1..Len(pool.keys) |-> OutcomeOf(i)]).ret

\* the second key ended before the first and both are in the mapping
C13_Witness ==
    /\ pool.phase = "done" /\ pool.overtook /\ ~pool.raised
    /\ pool.label = "sectionals" /\ Len(pool.keys) = 2
    /\ pool.completed = <<pool.results[2], pool.results[1]>>
    /\ Len(pool.ret.rows) = 2
    /\ pool.ret.rows[1].key = pool.keys[1] /\ pool.ret.rows[2].key = pool.keys[2]

DistinctKeys ==
    \A i, j \in 1..Len(pool.keys) : i # j => pool.keys[i] # pool.keys[j]

\* the same keys resolved one after the other, in the order given
OneByOne ==
    RunTasks(pool.label, pool.keys, pool.kw, pool.world, altlicence, now, FALSE,
             Pool0(pool.store0))

Payload(data) == IF pool.label = "route" THEN route_xml_to_json(data).val ELSE data

NonEmpty(rets) == {i \in 1..Len(rets) : Truthy(rets[i].data)}

RowsOf(rows) == {rows[i] : i \in 1..Len(rows)}

\* C12: a bulk fetch over distinct keys returns, however many workers ran
\* and however their steps interleaved, what the same keys give when they
\* are resolved one after the other: it raises in the same cases, and
\* otherwise its mapping holds exactly the keys given whose outcome is not
\* empty, each with the payload of that outcome (get_routes under the
\* course code as given; get_racelist_range, whose keys are days, holds
\* exactly the races of the days whose outcome is not empty).
C12_SameMappingAnyParallelism ==
    (pool.phase = "done" /\ DistinctKeys)
        => \A seq \in {OneByOne} :
             /\ pool.raised
                  = (\/ seq.raised
                     \/ /\ pool.label = "route"
                        /\ \E i \in NonEmpty(seq.results) :
                              ~route_xml_to_json(seq.results[i].data).ok)
             /\ ~pool.raised
                  => IF pool.label = "racelist"
                     THEN RowsOf(pool.ret.rows)
                            = UNION {RowsOf(seq.results[i].data.rows) :
                                        i \in NonEmpty(seq.results)}
                     ELSE /\ Len(pool.ret.rows) = Cardinality(NonEmpty(seq.results))
                          /\ RowsOf(pool.ret.rows)
                               = {[key |-> pool.keys[i], data |-> Payload(seq.results[i].data)] :
                                     i \in NonEmpty(seq.results)}

\* C29: set_filter changes the stored predicate only: the full set and the
\* view are the same before and after it, and the predicate it stores is
\* the one passed; apply_filter leaves the stored predicate as it was.
C29_SetFilterFrame ==
    [][/\ meta_op'.op = "set_filter"
            => _data' = _data /\ _list' = _list /\ _filter' = meta_op'.args
       /\ meta_op'.op = "apply_filter" => _filter' = _filter]_vars

\* a predicate was stored that the view in place does not satisfy: the
\* view still holds a race the stored predicate rejects
C29_Witness ==
    /\ meta_op.op = "set_filter" /\ _filter # NoPred
    /\ _list # Select(_data, _filter)
    /\ \E k \in DOMAIN _list : ~Keeps(k, _list[k], _filter)

\* C30: a get_race call leaves every cache file as it was: the record it
\* fetches is returned and not written, so the racelist file of the date is
\* the same after any sequence of get_race calls.
C30_GetRaceWritesNothing ==
    [][(last'.op = "get_race" /\ calls' = calls + 1)
            => store' = store /\ last'.writes = {}]_vars

\* a record was fetched from the remote and returned, and the racelist
\* file of its date does not exist
C30_Witness ==
    /\ last.op = "get_race" /\ last.gets > 0 /\ ~last.raised
    /\ Truthy(last.ret.data)
    /\ ~store["racelist"][DateStr(ScDate(last.key))].exists

\* C25: a cache file that exists keeps existing through every operation,
\* and a cache file is created or changed only by a call that requested
\* that file's own (entity type, key) and got an answer from the remote:
\* the file is among the call's writes, stamped with the time of the call,
\* and the remote was neither unreachable nor denying for that key.
AnswerFor(l, k) ==
    IF l.op \in ResolverOps THEN l.mode
    ELSE IF k \in DOMAIN l.world THEN l.world[k] ELSE "v1"

C25_CacheFilesPersist ==
    [][\A t \in Types : \A k \in KeysOf(t) :
          /\ store[t][k].exists => store'[t][k].exists
          /\ store'[t][k] # store[t][k]
               => /\ store'[t][k].exists /\ store'[t][k].mtime = now'
                  /\ <<t, k>> \in last'.writes /\ last'.gets > 0
                  /\ AnswerFor(last', k) \notin {"none", "down", "denied", "blank"}]_vars

\* a file that existed was fetched again and overwritten with another edition
C25_Witness ==
    /\ last.op \in ResolverOps /\ last.found.exists /\ last.writes # {}
    /\ \E c \in last.writes : store[c[1]][c[2]].exists /\ store[c[1]][c[2]].text # last.found.text

\* C24: when the remote answers a resolver's request with the body
\* 'Permission Denied', that one request is the only one made, the
\* resolver returns an empty outcome, and the cache file of the key is as
\* it was found (none is created, none is overwritten), for every resolver.
C24_DeniedIsTerminal ==
    (last.op \in ResolverOps /\ last.mode = "denied")
        => /\ last.gets - last.race_gets = 1
           /\ EmptyOutcome(last)
           /\ last.writes = {}
           /\ store[EntryOf(last.op, last.key, last.date)[1]]
                    [EntryOf(last.op, last.key, last.date)[2]] = last.found

\* a route that is cached was requested again with new and denied
C24_Witness ==
    /\ last.op = "get_route" /\ last.mode = "denied" /\ last.new
    /\ last.found.exists /\ last.gets = 1

\* C23: a read_url call issues at most try_limit GETs and none after the
\* first response, sleeps once after each failed attempt, gives what the
\* resolvers' read_url gives for the default try_limit, returns False with
\* try_limit GETs issued when every attempt fails, and always returns.
C23_Safe ==
    url.phase # "none"
        => /\ url.gets <= url.try_limit
           /\ url.answered <= 1
           /\ url.answered = 1 => url.phase = "done" /\ url.gets = url.net.fails + 1
           /\ url.slept = url.gets - url.answered
           /\ (url.phase = "done" /\ url.has_url /\ url.try_limit = TryLimit)
                => [txt |-> url.txt, gets |-> url.gets] = read_url(url.net)
           /\ (url.phase = "done" /\ url.net.fails >= url.try_limit)
                => url.txt = False_ /\ (url.has_url => url.gets = url.try_limit)

C23_ReadUrlBoundedAndTerminates ==
    /\ []C23_Safe
    /\ (url.phase = "loop") ~> (url.phase = "done")

\* three attempts failed, each followed by a sleep, and False was returned
C23_Witness ==
    /\ url.phase = "done" /\ url.try_limit = TryLimit /\ url.gets = TryLimit
    /\ url.slept = TryLimit /\ url.answered = 0 /\ url.txt = False_

\* C27: in a bulk call no two workers target the same cache file: two
\* tasks running at once never write the same file.
C27_NoSharedCacheFile ==
    pool.phase # "none"
        => \A i, j \in DOMAIN pool.eff :
              i # j => pool.eff[i].writes \cap pool.eff[j].writes = {}

\* the texts the tasks of the call wrote to file c
TextsWritten(c) ==
    {f[2] : f \in {g \in UNION {pool.results[i].files : i \in DOMAIN pool.results} : g[1] = c}}

Writers(c) ==
    {i \in DOMAIN pool.results : \E f \in pool.results[i].files : f[1] = c}

\* C26: when two workers of a call resolved the same key and both fetched,
\* once the call has ended the cache file holds the whole text one of
\* them wrote, and each of them returned the payload of the text it
\* fetched.
C26_LastWriterWins ==
    (pool.phase = "done" /\ pool.threads > 1)
        => \A c \in UNION {{f[1] : f \in pool.results[i].files} : i \in DOMAIN pool.results} :
             Cardinality(Writers(c)) > 1
                => /\ store[c[1]][c[2]].exists
                   /\ store[c[1]][c[2]].text \in TextsWritten(c)
                   /\ \A i \in Writers(c) : \A f \in pool.results[i].files :
                        (f[1] = c /\ ~pool.kw.no_return /\ pool.label = "sectionals")
                            => /\ JsonLoads(f[2]).ok
                               /\ pool.results[i].ret.data = JsonLoads(f[2]).val

\* the keys of output[label] after a get_data call
OutputKeys(l, label) == {it[2] : it \in {x \in l.items : x[1] = label}}

\* C21: after a get_data call that was given a dict of race records and a
\* RaceMetadata filter object, new or used in earlier calls, the keys of
\* output[label] are, for every label requested, the dispatched keys whose
\* payload is not empty, and they are among the sharecodes passed to the
\* call.
C21_OutputKeysAmongPassed ==
    [][(last'.op = "get_data" /\ calls' = calls + 1 /\ ~last'.raised)
          => \A label \in last'.request :
               /\ \E seq \in {RunTasks(label, TasksOf(last', label),
                                       Kw(last'.new, last'.offline, last'.no_return, None_),
                                       last'.world, altlicence, now, FALSE, Pool0(store))} :
                    OutputKeys(last', label)
                        = {seq.results[i].key : i \in NonEmpty(seq.results)}
               /\ OutputKeys(last', label) \subseteq RowsOf(last'.keys)]_vars

\* the requests for the entity file of a key that a task of update makes
\* on the store the range aggregation left
EntityFetches(label, key, st, l, clock) ==
    LET e == Resolve(label, st, clock, key, Kw(l.new, l.offline, TRUE, None_), l.world,
                     altlicence)
    IN  e.gets - e.race_gets

\* exempt are the entries that may be fetched although they exist; with
\* no_return a task gives True for a file it found and None otherwise
UpdateRule(l, st, clock, exempt(_, _, _)) ==
    \E rl \in {get_racelist_range(st, clock, 0, 0, Kw(l.new, l.offline, l.no_return, None_),
                                  l.world)} :
        /\ l.ret.data = None_
        /\ \A it \in l.items : it[3] = True_
        /\ rl.raised => (l.raised /\ l.tasks = <<>>)
        /\ ~rl.raised
             => \A label \in l.request :
                  /\ ~l.raised => TasksOf(l, label) = PublishedKeys(rl.results[1].data.rows)
                  /\ RowsOf(TasksOf(l, label)) \subseteq RowsOf(PublishedKeys(rl.results[1].data.rows))
                  /\ \A key \in RowsOf(TasksOf(l, label)) :
                        (rl.store[label][key].exists /\ ~l.new /\ ~exempt(label, key, rl.store))
                            => /\ EntityFetches(label, key, rl.store, l, clock) = 0
                               /\ <<label, key>> \notin l.writes

NoneExempt(label, key, st) == FALSE

PerformanceOpen(label, key, st) ==
    /\ label = "performance"
    /\ \E ld \in {load_file(st, "performance", key, TRUE)} : ~ld.ok \/ ~AnyRX(ld.val)

CycleStarts == updater.phase = "made" /\ updater.thr # "cycle" /\ updater'.thr = "cycle"

\* C28: while the updater is active a cycle starts whenever the job is due
\* and only then, also after a cycle that failed; once terminate() has
\* returned no cycle starts, and the driver thread comes to its end.
C28_UpdaterCyclesUntilTerminated ==
    /\ [][CycleStarts => updater.wait = 0 /\ updater.term # "done"]_vars
    /\ [](updater.phase = "made" /\ updater.wait = 0
            => <>(updater.thr = "cycle" \/ ~updater.active))
    /\ [](updater.phase = "made" /\ updater.failed
            => <>(updater.thr = "cycle" \/ ~updater.active))
    /\ [](updater.phase = "made" /\ updater.term = "done"
            => <>(updater.thr \in {"exited", "dead"}))

\* C32: once the user has entered 't', the listener loop and the
\* file_management process both come to an end.
C32_RecorderTerminates ==
    [](rec.phase = "run" /\ rec.term
          => <>(rec.phase = "run" /\ rec.lst = "done" /\ rec.fm \in {"done", "dead"}))

\* the numbers of the valid datagrams of sc among ds, in order
ValidOf(ds, sc) ==
    LET v == SelectSeq(ds, LAMBDA d : d.kind = "valid" /\ d.sc = sc)
    IN  [i \in 1..Len(v) |-> v[i].n]

IsPrefix(a, b) == Len(a) <= Len(b) /\ \A i \in 1..Len(a) : a[i] = b[i]

\* C33: the lines of the file of a sharecode are at any time the first of
\* its valid datagrams among those the listener received, in the order of
\* receipt, and all of them once the listener has stopped and
\* file_management has stopped or emptied the queue.
C33_RecorderKeepsEveryDatagram ==
    rec.phase = "run"
        => \A sc \in RecScs :
              /\ IsPrefix(rec.files[sc], ValidOf(rec.got, sc))
              /\ (rec.lst = "done" /\ (rec.fm # "get" \/ rec.q = <<>>))
                    => rec.files[sc] = ValidOf(rec.got, sc)

\* C34: a turn of file_management on a datagram that does not decode, is
\* not JSON or is a record without I logs it, writes no file and leaves
\* the process running.
C34_BadDatagramSkipped ==
    [][(rec.phase = "run" /\ rec.fm = "get" /\ rec.q # <<>> /\ rec'.q = Tail(rec.q)
        /\ Head(rec.q).kind \in {"nonascii", "notjson", "noI"})
          => /\ rec'.files = rec.files
             /\ rec'.fm = "get"
             /\ rec'.logged = Append(rec.logged, Head(rec.q).n)]_vars

\* C31: when apply_thread_pool returns or raises, every call of the resolver
\* that was begun has ended: no task is queued or running and no file is
\* open for writing; with worker threads every element of the iterable was
\* submitted and resolved exactly once, also when a task raised; and the
\* list returned has one result for each element, at the position of the
\* element (for the keyed resolvers the result names the key it was given).
C31_PoolJoinsBeforeReturn ==
    pool.phase = "done"
        => /\ pool.queue = <<>> /\ DOMAIN pool.eff = {} /\ pool.opened = {}
           /\ pool.threads > 1
                => /\ pool.submitted = Len(pool.keys)
                   /\ Len(pool.completed) = Len(pool.keys)
                   /\ DOMAIN pool.results = 1..Len(pool.keys)
           /\ ~pool.raised
                => /\ Len(PoolResults(pool)) = Len(pool.keys)
                   /\ pool.label # "racelist"
                        => \A i \in 1..Len(pool.keys) :
                              PoolResults(pool)[i].ret.key = pool.keys[i]

\* a call with two workers left by the exception of one task: both tasks
\* have ended
C31_Witness ==
    /\ pool.phase = "done" /\ pool.raised /\ pool.threads = 2
    /\ Len(pool.completed) = 2 /\ ~pool.completed[2].raised

\* C35: an import_data call that is given data or a directory adds its
\* records to the full set and leaves the view equal to the full set and
\* the stored predicate as it was; an import_data call given neither leaves
\* the full set, the view and the predicate as they were; and a view equal
\* to the full set stays equal to it under every operation but apply_filter.
C35_ImportResetsView ==
    [][/\ (meta_op'.op = "import_data" /\ meta_op'.data.kind # "None")
            => /\ _data' = PutRows(_data, meta_op'.data.rows)
               /\ _list' = _data'
               /\ _filter' = _filter
       /\ (meta_op'.op = "import_data" /\ meta_op'.data.kind = "None")
            => _data' = _data /\ _list' = _list /\ _filter' = _filter
       /\ (_list = _data /\ meta_op'.op # "apply_filter") => _list' = _data']_vars

\* records were imported from a directory into an object whose view was
\* narrowed and whose stored predicate is not the empty one: the view is
\* the full set again, with a record the view before did not have and one
\* the stored predicate rejects
C35_Witness ==
    /\ meta_op.op = "import_data" /\ meta_op.data.kind = "direc"
    /\ _filter # NoPred
    /\ _list = _data
    /\ meta_op.view0 # {}
    /\ \E k \in DOMAIN _list : k \notin meta_op.view0 /\ k \notin {"01_D0_a", "01_D0_c"}
    /\ \E k \in DOMAIN _list : ~Keeps(k, _list[k], _filter)

\* the two calls C36 compares: the resolver of the last call on its key, at
\* the store as it is, with the flags new and offline of that call, the
\* remote answering m, once with no_return = False and once with True
Twin(m, nr) ==
    Resolve(EntryOf(last.op, last.key, NoDate)[1], store, now, last.key,
            Kw(last.new, last.offline, nr, None_),
            [k \in {last.key, RouteFname(last.key)} |-> m], altlicence)

TwinModes == {"v1", "down", "emptylist"}

SameTraffic(a, b) == (a.gets > 0) = (b.gets > 0) /\ (a.writes # {}) = (b.writes # {})

TwinFile == store[EntryOf(last.op, last.key, NoDate)[1]][EntryOf(last.op, last.key, NoDate)[2]]

C37_LicenceIsProcessWide ==
    [][gmax_feed'.built = gmax_feed.built + 1
          => /\ gmax_feed'.licence # None_ => licence(environ') = gmax_feed'.licence
             /\ gmax_feed'.licence = None_ => licence(environ') = licence(environ)
             /\ (gmax_feed'.licence = None_ /\ licence(environ) # None_)
                    => ~gmax_feed'.raised /\ gmax_feed'.instance
             /\ \A v \in EnvNames \ {"GMAXLICENCE"} : environ'[v] = environ[v]]_vars

\* a second construction, without a licence, that succeeded on the licence
\* the first construction had passed
C37_Witness ==
    /\ gmax_feed.built = 2
    /\ gmax_feed.licence = None_
    /\ gmax_feed.had = Str("my_licence")
    /\ licence(environ) = Str("my_licence")
    /\ gmax_feed.instance /\ ~gmax_feed.raised

\* the packets of the scan that reset the start, and those that can set it
Resets(ps, k) == {j \in 1..k : ps[j].R = 0}
LastOf(S) == IF S = {} THEN 0 ELSE CHOOSE j \in S : \A i \in S : i <= j
FirstOf(S) == CHOOSE j \in S : \A i \in S : j <= i
Started(ps, k) == {j \in (LastOf(Resets(ps, k)) + 1)..k : ps[j].R > 0}

\* the start held after the first k packets: the T minus R of the first
\* packet with R > 0 since the last packet with R = 0, None without one
StartAfter(ps, k) ==
    IF Started(ps, k) = {} THEN NoneDate
    ELSE SomeDate(strptime(ps[FirstOf(Started(ps, k))].T) - ps[FirstOf(Started(ps, k))].R)

Finishes(ps) == {j \in 1..Len(ps) : ps[j].P = 0 /\ ps[j].R > 0}

\* C38: get_start_finish_timestamps returns as start_time the T minus R of
\* the first packet with R > 0 that follows the last packet with R = 0 (None
\* when no packet with R > 0 follows it), and as finish_time the start held
\* at the last packet with P = 0 and R > 0 plus the R of that packet (None
\* when there is no such packet).
C38_StartFinishScan ==
    util.op = "get_start_finish_timestamps"
        => \A ps \in {util.input} :
              /\ util.out.start_time = StartAfter(ps, Len(ps))
              /\ util.out.finish_time
                    = IF Finishes(ps) = {} THEN NoneDate
                      ELSE SomeDate(StartAfter(ps, LastOf(Finishes(ps))).val
                                    + ps[LastOf(Finishes(ps))].R)

\* a start, a false start that reset it, and a second start from which the
\* finish was taken
C38_Witness ==
    /\ util.op = "get_start_finish_timestamps"
    /\ Len(util.input) = 3
    /\ util.input[1].R > 0 /\ util.input[2].R = 0
    /\ util.input[3].R > 0 /\ util.input[3].P = 0
    /\ util.input[1].T # util.input[3].T
    /\ util.out.start_time = SomeDate(strptime(util.input[3].T) - util.input[3].R)
    /\ util.out.finish_time = SomeDate(strptime(util.input[3].T))

FinishRecords(ss) == {ss[j] : j \in {i \in 1..Len(ss) : ss[i].G = "Finish"}}

\* C39: get_finish_order returns an entry for exactly the runners that
\* have a record of the gate Finish, with the time of that record and the
\* position 1 + the number of runners whose finish time is strictly
\* smaller; for an empty list it returns an empty dict.
C39_FinishOrder ==
    util.op = "get_finish_order"
        => /\ DOMAIN util.out = {row.I : row \in FinishRecords(util.input)}
           /\ \A row \in FinishRecords(util.input) :
                 /\ util.out[row.I].finish_time = row.R
                 /\ util.out[row.I].position
                       = 1 + Cardinality({o \in FinishRecords(util.input) : o.R < row.R})
           /\ util.input = <<>> => util.out = <<>>

\* a dead heat for the first place of four runners: 1, 1, 3, 4, given in
\* the reverse order of the finish
C39_Witness ==
    /\ util.op = "get_finish_order"
    /\ Len(util.input) = 5
    /\ util.input[1].I = "r4"
    /\ DOMAIN util.out = {"r1", "r2", "r3", "r4"}
    /\ util.out["r1"].position = 1 /\ util.out["r2"].position = 1
    /\ util.out["r3"].position = 3 /\ util.out["r4"].position = 4

====
